---- MODULE Spec2Model ----
(***************************************************************************)
(* Model of the metric extraction and evaluation scoring engine of         *)
(* src/eval_metrics_harness.py: value normalisation, structured-response   *)
(* extraction, metric canonicalisation, unit reconciliation and scoring.   *)
(*                                                                         *)
(* Conventions                                                             *)
(*  - A Python value is a record [t, v, s, o]: t is the type tag, v the     *)
(*    number (fixed point, in units of 1/Unit), s the characters of a       *)
(*    string, o the items of a list or the <<key, value>> pairs of a dict.  *)
(*  - A string is a sequence of characters; a character is a one-symbol     *)
(*    TLA+ string.  "NL" is the newline, "QUOTE" the double quote, "BSL"    *)
(*    the backslash, "BTICK" the backtick and "MULT" the multiplication     *)
(*    sign U+00D7.                                                          *)
(***************************************************************************)
EXTENDS Integers, Sequences, FiniteSets, TLC

VARIABLES
    pc,                 \* position of the running call
    arg,                \* the arguments of the call under study
    res,                \* its return value; in evaluate_one, the rows so far
    _FAILURE_LOG_COUNT  \* the module's count of failures logged

vars == <<pc, arg, res, _FAILURE_LOG_COUNT>>

(***************************************************************************)
(* Numbers.                                                                *)
(***************************************************************************)
RECURSIVE Pow10(_)
Pow10(k) == IF k = 0 THEN 1 ELSE 10 * Pow10(k - 1)

\* Fixed-point scale: the number x is held as the integer x * Unit (four
\* decimal places; the model's numbers stay below 2000 in magnitude times 100).
Unit == Pow10(4)

Abs(n) == IF n < 0 THEN -n ELSE n

(***************************************************************************)
(* Python values.                                                          *)
(***************************************************************************)
PyNone == [t |-> "none", v |-> 0, s |-> <<>>, o |-> <<>>]

PyNaN == [t |-> "nan", v |-> 0, s |-> <<>>, o |-> <<>>]

\* float("inf") (sign = 1) and float("-inf") (sign = -1).
PyInf(sign) == [t |-> "inf", v |-> sign, s |-> <<>>, o |-> <<>>]

\* A finite number, n in units of 1/Unit.
PyNum(n) == [t |-> "num", v |-> n, s |-> <<>>, o |-> <<>>]

\* True (b = 1) and False (b = 0): bool is a subclass of int.
PyBool(b) == [t |-> "bool", v |-> b, s |-> <<>>, o |-> <<>>]

PyStr(chars) == [t |-> "str", v |-> 0, s |-> chars, o |-> <<>>]

\* A dict, as its <<key, value>> pairs in insertion order (keys distinct).
PyDict(pairs) == [t |-> "dict", v |-> 0, s |-> <<>>, o |-> pairs]

PyList(items) == [t |-> "list", v |-> 0, s |-> <<>>, o |-> items]

IsNone(x) == x.t = "none"

\* isinstance(x, (int, float)).
IsNumber(x) == x.t \in {"num", "nan", "inf", "bool"}

\* Python truthiness, as `a or b` and `if x` test it.
Truthy(x) ==
    CASE x.t = "none" -> FALSE
      [] x.t = "num" -> x.v # 0
      [] x.t = "bool" -> x.v # 0
      [] x.t = "str" -> x.s # <<>>
      [] x.t \in {"dict", "list"} -> x.o # <<>>
      [] OTHER -> TRUE

\* a or b
PyOr(a, b) == IF Truthy(a) THEN a ELSE b

\* d.get(key) on a dict given as pairs: None when the key is missing.
DictGet(d, key) ==
    IF \E i \in 1..Len(d.o) : d.o[i][1] = key
    THEN d.o[CHOOSE i \in 1..Len(d.o) : d.o[i][1] = key][2]
    ELSE PyNone

\* key in d
DictHas(d, key) == \E i \in 1..Len(d.o) : d.o[i][1] = key

(***************************************************************************)
(* Strings.                                                                *)
(***************************************************************************)
\* The characters str.strip() removes.
Whitespace == {" ", "NL", "TAB", "CR"}

DigitSeq == <<"0", "1", "2", "3", "4", "5", "6", "7", "8", "9">>

Digits == {DigitSeq[i] : i \in 1..10}

DigitVal(c) == (CHOOSE i \in 1..10 : DigitSeq[i] = c) - 1

UpperSeq ==
    << "A", "B", "C", "D", "E", "F", "G", "H", "I", "J", "K", "L", "M",
       "N", "O", "P", "Q", "R", "S", "T", "U", "V", "W", "X", "Y", "Z" >>

LowerSeq ==
    << "a", "b", "c", "d", "e", "f", "g", "h", "i", "j", "k", "l", "m",
       "n", "o", "p", "q", "r", "s", "t", "u", "v", "w", "x", "y", "z" >>

\* str.lower() on one character.
LowerChar(c) ==
    IF \E i \in 1..26 : UpperSeq[i] = c
    THEN LowerSeq[CHOOSE i \in 1..26 : UpperSeq[i] = c]
    ELSE c

Lower(s) == [i \in 1..Len(s) |-> LowerChar(s[i])]

\* The least offset j >= i of s holding a character of cs, Len(s) + 1 if none.
FirstIn(s, i, cs) ==
    IF \E j \in i..Len(s) : s[j] \in cs
    THEN CHOOSE j \in i..Len(s) : s[j] \in cs /\ \A k \in i..(j - 1) : s[k] \notin cs
    ELSE Len(s) + 1

\* The least offset j >= i of s holding a character outside cs, Len(s) + 1 if none.
FirstNotIn(s, i, cs) ==
    IF \E j \in i..Len(s) : s[j] \notin cs
    THEN CHOOSE j \in i..Len(s) : s[j] \notin cs /\ \A k \in i..(j - 1) : s[k] \in cs
    ELSE Len(s) + 1

\* The greatest offset of s holding a character outside cs, 0 if none.
LastNotIn(s, cs) ==
    IF \E j \in 1..Len(s) : s[j] \notin cs
    THEN CHOOSE j \in 1..Len(s) : s[j] \notin cs /\ \A k \in (j + 1)..Len(s) : s[k] \in cs
    ELSE 0

\* s.lstrip(cs)
LStrip(s, cs) == SubSeq(s, FirstNotIn(s, 1, cs), Len(s))

\* s.rstrip(cs)
RStrip(s, cs) == SubSeq(s, 1, LastNotIn(s, cs))

\* s.strip()
Strip(s) == RStrip(LStrip(s, Whitespace), Whitespace)

\* s.replace(c, "") for a one-character c.
RemoveChar(s, c) == SelectSeq(s, LAMBDA x : x # c)

\* s.startswith(p) at offset i (1-based).
MatchAt(s, p, i) ==
    /\ i >= 1
    /\ i + Len(p) - 1 <= Len(s)
    /\ \A k \in 1..Len(p) : s[i + k - 1] = p[k]

\* The least member of the set of offsets S, 0 when S is empty.
LeastOf(S) == IF S = {} THEN 0 ELSE CHOOSE x \in S : \A y \in S : x <= y

\* s.find(p, from): the least 1-based offset >= from where p occurs, 0 if none.
Find(s, p, from) ==
    IF \E i \in from..Len(s) + 1 : MatchAt(s, p, i)
    THEN CHOOSE i \in from..Len(s) + 1 :
            /\ MatchAt(s, p, i)
            /\ \A j \in from..(i - 1) : ~MatchAt(s, p, j)
    ELSE 0

Contains(s, p) == Find(s, p, 1) # 0

(***************************************************************************)
(* float(s) for a string s.  The strings of the model hold no exponent     *)
(* part and no underscore; within that alphabet this is Python's grammar:  *)
(* surrounding whitespace, an optional sign, then digits with at most one  *)
(* point and at least one digit, or one of inf, infinity, nan in any case. *)
(***************************************************************************)
AllDigits(s) == \A i \in 1..Len(s) : s[i] \in Digits

RECURSIVE DigitsValue(_)
DigitsValue(s) ==
    IF s = <<>> THEN 0
    ELSE 10 * DigitsValue(SubSeq(s, 1, Len(s) - 1)) + DigitVal(s[Len(s)])

\* The first four digits of a fraction part.
FractionDigits(fp) == IF Len(fp) > 4 THEN SubSeq(fp, 1, 4) ELSE fp

\* The value of the integer part ip and the (cut) fraction part fp.
PartsValue(ip, fp) == DigitsValue(ip) * Unit + DigitsValue(fp) * Pow10(4 - Len(fp))

\* The value of the literal s whose point is at offset dot (0: no point).
DecimalValueAt(s, dot) ==
    IF dot = 0 THEN PartsValue(s, <<>>)
    ELSE PartsValue(SubSeq(s, 1, dot - 1), FractionDigits(SubSeq(s, dot + 1, Len(s))))

\* The value, in units of 1/Unit, of an unsigned decimal literal.
DecimalValue(s) == DecimalValueAt(s, Find(s, <<".">>, 1))

IsDecimalAt(s, dot) ==
    IF dot = 0 THEN AllDigits(s) /\ Len(s) >= 1
    ELSE /\ \A i \in 1..Len(s) : i = dot \/ s[i] \in Digits
         /\ Len(s) >= 2

IsDecimal(s) == IsDecimalAt(s, Find(s, <<".">>, 1))

\* float of the unsigned text body with the sign given.
ParseUnsigned(body, sign) ==
    CASE body \in {<<"i", "n", "f">>, <<"i", "n", "f", "i", "n", "i", "t", "y">>} ->
                [ok |-> TRUE, val |-> PyInf(sign)]
      [] body = <<"n", "a", "n">> -> [ok |-> TRUE, val |-> PyNaN]
      [] IsDecimal(body) -> [ok |-> TRUE, val |-> PyNum(sign * DecimalValue(body))]
      [] OTHER -> [ok |-> FALSE, val |-> PyNone]

ParseSigned(s0) ==
    CASE s0 = <<>> -> ParseUnsigned(s0, 1)
      [] Head(s0) = "-" -> ParseUnsigned(Tail(s0), -1)
      [] Head(s0) = "+" -> ParseUnsigned(Tail(s0), 1)
      [] OTHER -> ParseUnsigned(s0, 1)

\* float(s): [ok |-> FALSE] stands for ValueError.
ParseFloat(str) == ParseSigned(Lower(Strip(str)))

(***************************************************************************)
(* Value Normalizer.                                                       *)
(***************************************************************************)
\* The strings normalize_value maps to None before parsing.
SentinelStrings ==
    { <<>>,
      <<"n", "/", "a">>,
      <<"n", "a">>,
      <<"n", "u", "l", "l">>,
      <<"n", "o", "n", "e">> }

\* The float a parse gave, None for ValueError.
FloatOrNone(f) == IF f.ok THEN f.val ELSE PyNone

\* The string branch of normalize_value, s being val.strip().lower().
NormalizeString(s) ==
    IF s \in SentinelStrings THEN PyNone
    ELSE FloatOrNone(ParseFloat(Strip(RStrip(RemoveChar(s, ","), {"x", "X", "%"}))))

\* normalize_value(val): a float or None.
normalize_value(val) ==
    CASE val.t = "none" -> PyNone
      [] val.t = "bool" -> PyNum(val.v * Unit)
      [] val.t \in {"num", "inf"} -> val
      [] val.t = "nan" -> PyNone
      [] val.t = "str" -> NormalizeString(Lower(Strip(val.s)))
      [] OTHER -> PyNone

(***************************************************************************)
(* Scorer: in-scope flags and overall score.                               *)
(***************************************************************************)
\* round(num / denom, 4) for integers num >= 0, denom > 0, in units of 1/Unit
\* (round half to even, as Python rounds).
Round4(num, denom) ==
    LET scaled == num * 10000
        q == scaled \div denom
        r == scaled % denom
        up == \/ 2 * r > denom
              \/ (2 * r = denom /\ q % 2 = 1)
    IN (IF up THEN q + 1 ELSE q) * (Unit \div 10000)

\* compute_score_from_gt_and_matches scoring a document without expected
\* metrics as a perfect match instead of not applicable.
compute_score_na_as_perfect(g, irr_match, moic_match, dpi_match, other_match) ==
    LET irr_in_scope == ~IsNone(g.net_irr)
        moic_in_scope == ~IsNone(g.net_moic)
        dpi_in_scope == ~IsNone(g.net_dpi)
        other_in_scope == ~IsNone(g.other_metric_value)
        B(b) == IF b THEN 1 ELSE 0
        score_denom == B(irr_in_scope) + B(moic_in_scope) + B(dpi_in_scope) + B(other_in_scope)
        score_num == (IF irr_in_scope THEN irr_match ELSE 0)
                     + (IF moic_in_scope THEN moic_match ELSE 0)
                     + (IF dpi_in_scope THEN dpi_match ELSE 0)
                     + (IF other_in_scope THEN other_match ELSE 0)
    IN [ irr_in_scope |-> irr_in_scope, moic_in_scope |-> moic_in_scope,
         dpi_in_scope |-> dpi_in_scope, other_in_scope |-> other_in_scope,
         score_denom |-> score_denom, score_num |-> score_num,
         overall_score |-> IF score_denom = 0 THEN PyNum(Unit)
                           ELSE PyNum(Round4(score_num, score_denom)),
         no_metrics_in_scope |-> FALSE, overall_score_is_na |-> 0 ]

\* compute_score_from_gt_and_matches counting every match flag in the
\* numerator, in scope or not.
compute_score_num_ignores_scope(g, irr_match, moic_match, dpi_match, other_match) ==
    LET irr_in_scope == ~IsNone(g.net_irr)
        moic_in_scope == ~IsNone(g.net_moic)
        dpi_in_scope == ~IsNone(g.net_dpi)
        other_in_scope == ~IsNone(g.other_metric_value)
        B(b) == IF b THEN 1 ELSE 0
        score_denom == B(irr_in_scope) + B(moic_in_scope) + B(dpi_in_scope) + B(other_in_scope)
        score_num == irr_match + moic_match + dpi_match + other_match
    IN IF score_denom = 0
       THEN [ irr_in_scope |-> irr_in_scope, moic_in_scope |-> moic_in_scope,
              dpi_in_scope |-> dpi_in_scope, other_in_scope |-> other_in_scope,
              score_denom |-> 0, score_num |-> 0, overall_score |-> PyStr(<<>>),
              no_metrics_in_scope |-> TRUE, overall_score_is_na |-> 1 ]
       ELSE [ irr_in_scope |-> irr_in_scope, moic_in_scope |-> moic_in_scope,
              dpi_in_scope |-> dpi_in_scope, other_in_scope |-> other_in_scope,
              score_denom |-> score_denom, score_num |-> score_num,
              overall_score |-> PyNum(Round4(score_num, score_denom)),
              no_metrics_in_scope |-> FALSE, overall_score_is_na |-> 0 ]

\* compute_score_from_gt_and_matches dividing by the four metrics whenever
\* one of them is in scope.
compute_score_denom_of_four(g, irr_match, moic_match, dpi_match, other_match) ==
    LET irr_in_scope == ~IsNone(g.net_irr)
        moic_in_scope == ~IsNone(g.net_moic)
        dpi_in_scope == ~IsNone(g.net_dpi)
        other_in_scope == ~IsNone(g.other_metric_value)
        none_in_scope == ~(irr_in_scope \/ moic_in_scope \/ dpi_in_scope \/ other_in_scope)
        score_num == (IF irr_in_scope THEN irr_match ELSE 0)
                     + (IF moic_in_scope THEN moic_match ELSE 0)
                     + (IF dpi_in_scope THEN dpi_match ELSE 0)
                     + (IF other_in_scope THEN other_match ELSE 0)
    IN IF none_in_scope
       THEN [ irr_in_scope |-> irr_in_scope, moic_in_scope |-> moic_in_scope,
              dpi_in_scope |-> dpi_in_scope, other_in_scope |-> other_in_scope,
              score_denom |-> 0, score_num |-> 0, overall_score |-> PyStr(<<>>),
              no_metrics_in_scope |-> TRUE, overall_score_is_na |-> 1 ]
       ELSE [ irr_in_scope |-> irr_in_scope, moic_in_scope |-> moic_in_scope,
              dpi_in_scope |-> dpi_in_scope, other_in_scope |-> other_in_scope,
              score_denom |-> 4, score_num |-> score_num,
              overall_score |-> PyNum(Round4(score_num, 4)),
              no_metrics_in_scope |-> FALSE, overall_score_is_na |-> 0 ]

\* compute_score_from_gt_and_matches(gt, irr_match, moic_match, dpi_match,
\* other_match); g is the ground truth with gt.get(key) for each key read.
compute_score_from_gt_and_matches(g, irr_match, moic_match, dpi_match, other_match) ==
    LET irr_in_scope == ~IsNone(g.net_irr)
        moic_in_scope == ~IsNone(g.net_moic)
        dpi_in_scope == ~IsNone(g.net_dpi)
        other_in_scope == ~IsNone(g.other_metric_value)
        B(b) == IF b THEN 1 ELSE 0
        score_denom == B(irr_in_scope) + B(moic_in_scope) + B(dpi_in_scope) + B(other_in_scope)
        no_metrics_in_scope == score_denom = 0
        score_num == (IF irr_in_scope THEN irr_match ELSE 0)
                     + (IF moic_in_scope THEN moic_match ELSE 0)
                     + (IF dpi_in_scope THEN dpi_match ELSE 0)
                     + (IF other_in_scope THEN other_match ELSE 0)
    IN IF no_metrics_in_scope
       THEN [ irr_in_scope |-> irr_in_scope, moic_in_scope |-> moic_in_scope,
              dpi_in_scope |-> dpi_in_scope, other_in_scope |-> other_in_scope,
              score_denom |-> 0, score_num |-> 0, overall_score |-> PyStr(<<>>),
              no_metrics_in_scope |-> TRUE, overall_score_is_na |-> 1 ]
       ELSE [ irr_in_scope |-> irr_in_scope, moic_in_scope |-> moic_in_scope,
              dpi_in_scope |-> dpi_in_scope, other_in_scope |-> other_in_scope,
              score_denom |-> score_denom, score_num |-> score_num,
              overall_score |-> PyNum(Round4(score_num, score_denom)),
              no_metrics_in_scope |-> FALSE, overall_score_is_na |-> 0 ]

(***************************************************************************)
(* json.loads, as _try_parse_json calls it.  A parse returns                *)
(* [ok, val, pos, err]: on success the value and the offset after it, on    *)
(* failure the message of the JSONDecodeError.  Number literals carry no    *)
(* exponent part in the model's texts.                                      *)
(***************************************************************************)
JsonWs == {" ", "NL", "TAB", "CR"}

\* The characters below U+0020 of the model's alphabet.
ControlChars == {"NL", "TAB", "CR"}

HexDigits == Digits \cup {"a", "b", "c", "d", "e", "f", "A", "B", "C", "D", "E", "F"}

\* The characters json accepts after a backslash, besides u.
SimpleEscapes == {"QUOTE", "BSL", "/", "b", "f", "n", "r", "t"}

Unescape(c) ==
    CASE c = "b" -> "BS"
      [] c = "f" -> "FF"
      [] c = "n" -> "NL"
      [] c = "r" -> "CR"
      [] c = "t" -> "TAB"
      [] OTHER -> c

CharAt(s, i) == IF i >= 1 /\ i <= Len(s) THEN s[i] ELSE "EOF"

\* WHITESPACE.match(s, i).end()
SkipWs(s, i) == IF i > Len(s) THEN i ELSE FirstNotIn(s, i, JsonWs)

\* The end of the run of digits at offset i.
SkipDigits(s, i) == IF i > Len(s) THEN i ELSE FirstNotIn(s, i, Digits)

JsonFail(msg, at) == [ok |-> FALSE, val |-> PyNone, pos |-> at, err |-> msg]

JsonOk(val, at) == [ok |-> TRUE, val |-> val, pos |-> at, err |-> ""]

\* pairs with key bound to val: a repeated key keeps its place, the last value wins.
DictSet(pairs, key, val) ==
    IF \E i \in 1..Len(pairs) : pairs[i][1] = key
    THEN [i \in 1..Len(pairs) |-> IF pairs[i][1] = key THEN <<key, val>> ELSE pairs[i]]
    ELSE Append(pairs, <<key, val>>)

\* STRINGCHUNK: the offset of the first quote, backslash or control
\* character from offset i, Len(s) + 1 if there is none.
StringChunkEnd(s, i) ==
    IF i > Len(s) THEN i ELSE FirstIn(s, i, {"QUOTE", "BSL"} \cup ControlChars)

RECURSIVE ScanString(_, _, _)

\* The terminator of a chunk at offset i, acc being the content so far.
ScanTerminator(s, i, acc) ==
    LET c == CharAt(s, i)
        e == CharAt(s, i + 1)
    IN CASE c = "EOF" -> JsonFail("Unterminated string starting at", i)
         [] c = "QUOTE" -> JsonOk(PyStr(acc), i + 1)
         [] c \in ControlChars -> JsonFail("Invalid control character at", i)
         [] e = "EOF" -> JsonFail("Unterminated string starting at", i)
         [] e = "u" ->
                IF \A k \in 2..5 : CharAt(s, i + k) \in HexDigits
                THEN ScanString(s, i + 6, Append(acc, "UNI"))
                ELSE JsonFail("Invalid uXXXX escape", i)
         [] e \in SimpleEscapes -> ScanString(s, i + 2, Append(acc, Unescape(e)))
         [] OTHER -> JsonFail("Invalid escape", i)

\* scanstring from offset i, just after the opening quote: chunk by chunk.
ScanString(s, i, acc) ==
    ScanTerminator(s, StringChunkEnd(s, i),
                   acc \o SubSeq(s, i, StringChunkEnd(s, i) - 1))

\* The end of the fraction part, the integer part ending at ie.
FractionEnd(s, ie) ==
    IF CharAt(s, ie) = "." /\ CharAt(s, ie + 1) \in Digits
    THEN SkipDigits(s, ie + 1) ELSE ie

\* The end of the literal whose digits start at offset j, 0 when none do.
NumberFrom(s, j) ==
    IF CharAt(s, j) \notin Digits THEN 0
    ELSE FractionEnd(s, IF CharAt(s, j) = "0" THEN j + 1 ELSE SkipDigits(s, j))

\* The end (exclusive) of the number literal at offset i, 0 when there is none:
\* -?(0|[1-9][0-9]*)(\.[0-9]+)?
NumberEnd(s, i) == NumberFrom(s, IF CharAt(s, i) = "-" THEN i + 1 ELSE i)

NumberValue(s, i, e) ==
    IF s[i] = "-" THEN PyNum(-DecimalValue(SubSeq(s, i + 1, e - 1)))
    ELSE PyNum(DecimalValue(SubSeq(s, i, e - 1)))

RECURSIVE ParseValue(_, _)
RECURSIVE ParseMembers(_, _, _)
RECURSIVE ParseItems(_, _, _)

\* After a comma at the end of a member, next being the offset of the next key.
MemberNext(s, next, pairs) ==
    IF CharAt(s, next) # "QUOTE"
    THEN JsonFail("Expecting property name enclosed in double quotes", next)
    ELSE ParseMembers(s, next + 1, pairs)

\* After a member's value, pairs holding it: the object's end or a comma.
MemberEnd(s, after, pairs) ==
    CASE CharAt(s, after) = "}" -> JsonOk(PyDict(pairs), after + 1)
      [] CharAt(s, after) # "," -> JsonFail("Expecting ',' delimiter", after)
      [] OTHER -> MemberNext(s, SkipWs(s, after + 1), pairs)

\* The member key with the parse v of its value.
MemberValue(s, key, v, pairs) ==
    IF ~v.ok THEN v ELSE MemberEnd(s, SkipWs(s, v.pos), DictSet(pairs, key, v.val))

\* The member key, colon being the offset after the key and whitespace.
MemberColon(s, key, colon, pairs) ==
    IF CharAt(s, colon) # ":" THEN JsonFail("Expecting ':' delimiter", colon)
    ELSE MemberValue(s, key, ParseValue(s, SkipWs(s, colon + 1)), pairs)

\* A member whose key scanned as k.
MemberKey(s, k, pairs) ==
    IF ~k.ok THEN k ELSE MemberColon(s, k.val.s, SkipWs(s, k.pos), pairs)

\* The members of an object from offset i, just after the quote opening a key.
ParseMembers(s, i, pairs) == MemberKey(s, ScanString(s, i, <<>>), pairs)

\* An object whose first token is at offset j.
ObjectAt(s, j) ==
    CASE CharAt(s, j) = "}" -> JsonOk(PyDict(<<>>), j + 1)
      [] CharAt(s, j) = "QUOTE" -> ParseMembers(s, j + 1, <<>>)
      [] OTHER -> JsonFail("Expecting property name enclosed in double quotes", j)

\* JSONObject from offset i, just after the opening brace.
ParseObject(s, i) == ObjectAt(s, IF CharAt(s, i) # "QUOTE" THEN SkipWs(s, i) ELSE i)

\* After an item, items holding it: the array's end or a comma.
ItemEnd(s, after, items) ==
    CASE CharAt(s, after) = "]" -> JsonOk(PyList(items), after + 1)
      [] CharAt(s, after) # "," -> JsonFail("Expecting ',' delimiter", after)
      [] OTHER -> ParseItems(s, SkipWs(s, after + 1), items)

\* An item that parsed as v.
ItemValue(s, v, items) ==
    IF ~v.ok THEN v ELSE ItemEnd(s, SkipWs(s, v.pos), Append(items, v.val))

\* The items of an array from offset i, the start of an item.
ParseItems(s, i, items) == ItemValue(s, ParseValue(s, i), items)

\* An array whose first token is at offset j.
ArrayAt(s, j) ==
    IF CharAt(s, j) = "]" THEN JsonOk(PyList(<<>>), j + 1) ELSE ParseItems(s, j, <<>>)

\* JSONArray from offset i, just after the opening bracket.
ParseArray(s, i) == ArrayAt(s, SkipWs(s, i))

\* The value at offset i, c being the character there and ne the end of the
\* number literal there.
ValueAt(s, i, c, ne) ==
    CASE c = "QUOTE" -> ScanString(s, i + 1, <<>>)
      [] c = "{" -> ParseObject(s, i + 1)
      [] c = "[" -> ParseArray(s, i + 1)
      [] MatchAt(s, <<"n", "u", "l", "l">>, i) -> JsonOk(PyNone, i + 4)
      [] MatchAt(s, <<"t", "r", "u", "e">>, i) -> JsonOk(PyBool(1), i + 4)
      [] MatchAt(s, <<"f", "a", "l", "s", "e">>, i) -> JsonOk(PyBool(0), i + 5)
      [] ne # 0 -> JsonOk(NumberValue(s, i, ne), ne)
      [] MatchAt(s, <<"N", "a", "N">>, i) -> JsonOk(PyNaN, i + 3)
      [] MatchAt(s, <<"I", "n", "f", "i", "n", "i", "t", "y">>, i) -> JsonOk(PyInf(1), i + 8)
      [] MatchAt(s, <<"-", "I", "n", "f", "i", "n", "i", "t", "y">>, i) ->
             JsonOk(PyInf(-1), i + 9)
      [] OTHER -> JsonFail("Expecting value", i)

\* scan_once at offset i.
ParseValue(s, i) == ValueAt(s, i, CharAt(s, i), NumberEnd(s, i))

\* The document parsed as r, e being the offset after the whitespace behind it.
LoadsEnd(s, r, e) ==
    IF e # Len(s) + 1 THEN JsonFail("Extra data", e) ELSE r

LoadsValue(s, r) == IF ~r.ok THEN r ELSE LoadsEnd(s, r, SkipWs(s, r.pos))

\* json.loads(s)
JsonLoads(s) == LoadsValue(s, ParseValue(s, SkipWs(s, 1)))

(***************************************************************************)
(* Structured-Response Repair & Extractor.                                 *)
(***************************************************************************)
Fence == <<"BTICK", "BTICK", "BTICK">>

FenceJson == <<"BTICK", "BTICK", "BTICK", "j", "s", "o", "n">>

W_json == <<"j", "s", "o", "n">>

W_json_colon == <<"j", "s", "o", "n", ":">>

\* The lines _strip_json_prefixed_junk drops whole.
JunkLines ==
    { <<"[", "j", "s", "o", "n", "]">>,
      W_json,
      W_json_colon,
      <<"h", "e", "r", "e", " ", "i", "s", " ", "t", "h", "e", " ", "j", "s", "o", "n", ":">>,
      <<"h", "e", "r", "e", " ", "i", "s", " ", "t", "h", "e", " ", "d", "a", "t", "a", ":">> }

\* text.split("\n")
RECURSIVE SplitLines(_)
SplitLines(s) ==
    LET nl == Find(s, <<"NL">>, 1)
    IN IF nl = 0 THEN <<s>>
       ELSE <<SubSeq(s, 1, nl - 1)>> \o SplitLines(SubSeq(s, nl + 1, Len(s)))

\* "\n".join(lines)
RECURSIVE JoinLines(_)
JoinLines(lines) ==
    IF lines = <<>> THEN <<>>
    ELSE IF Len(lines) = 1 THEN lines[1]
    ELSE lines[1] \o <<"NL">> \o JoinLines(Tail(lines))

\* The while loop of _strip_json_prefixed_junk.
RECURSIVE StripJunkLoop(_)
StripJunkLoop(lines) ==
    IF lines = <<>> THEN lines
    ELSE LET line == Lower(Strip(lines[1]))
             st == Strip(lines[1])
             rest == Strip(SubSeq(st, Find(Lower(st), W_json, 1) + 4, Len(st)))
         IN CASE line = <<>> \/ line \in JunkLines -> StripJunkLoop(Tail(lines))
              [] MatchAt(line, W_json_colon, 1) \/ MatchAt(line, FenceJson, 1) ->
                    IF rest = <<>> THEN StripJunkLoop(Tail(lines))
                    ELSE StripJunkLoop(<<rest>> \o Tail(lines))
              [] OTHER -> lines

_strip_json_prefixed_junk(text) ==
    IF text = <<>> THEN text
    ELSE Strip(JoinLines(StripJunkLoop(SplitLines(text))))

\* The offset of the next brace after offset i, Len(s) + 1 if none.
NextBrace(s, i) == FirstIn(s, i + 1, {"{", "}"})

\* The offset of the brace closing the object opened at start, 0 if none:
\* the depth counter of _extract_first_json_object, i being the offset of a
\* brace (characters other than braces leave the depth alone).
RECURSIVE MatchingBrace(_, _, _)
MatchingBrace(s, i, depth) ==
    IF i > Len(s) THEN 0
    ELSE IF s[i] = "{" THEN MatchingBrace(s, NextBrace(s, i), depth + 1)
    ELSE IF depth = 1 THEN i
    ELSE MatchingBrace(s, NextBrace(s, i), depth - 1)

\* text[start:end].strip(), close being text.find("```", start) (0: none).
FencedUntil(text, start, close) ==
    Strip(SubSeq(text, start, IF close = 0 THEN Len(text) ELSE close - 1))

\* The text between the fence opened at the 1-based offset open (of length n)
\* and the next fence, or the end.
FencedInterior(text, open, n) == FencedUntil(text, open + n, Find(text, Fence, open + n))

\* The fence branches, fj and f being where "```json" (in any case) and "```"
\* first occur in text (0: nowhere).
Unfence(text, fj, f) ==
    IF fj # 0 THEN FencedInterior(text, fj, 7)
    ELSE IF f # 0 THEN FencedInterior(text, f, 3)
    ELSE text

\* The object from the brace at start to its closing brace at close.
ObjectSpan(text, start, close) ==
    IF close = 0 THEN [found |-> FALSE, s |-> <<>>]
    ELSE [found |-> TRUE, s |-> SubSeq(text, start, close)]

ObjectFrom(text, start) ==
    IF start = 0 THEN [found |-> FALSE, s |-> <<>>]
    ELSE ObjectSpan(text, start, MatchingBrace(text, start, 0))

FirstObjectIn(text) == ObjectFrom(text, Find(text, <<"{">>, 1))

UnfenceStripped(text) == Unfence(text, Find(Lower(text), FenceJson, 1), Find(text, Fence, 1))

\* _extract_first_json_object(text): [found, s], found = FALSE for None.
_extract_first_json_object(text) ==
    FirstObjectIn(_strip_json_prefixed_junk(UnfenceStripped(Strip(text))))

\* The result of _try_parse_json when json.loads gave r.
TryParsed(r) ==
    IF ~r.ok THEN [data |-> PyNone, err |-> PyStr(<<r.err>>)]
    ELSE IF r.val.t # "dict" THEN [data |-> PyNone, err |-> PyStr(<<"Parsed value is not a dict">>)]
    ELSE [data |-> r.val, err |-> PyNone]

\* _try_parse_json(snippet): [data, err]; data is None on failure, err is
\* None on success.
_try_parse_json(snippet) == TryParsed(JsonLoads(snippet))

\* Whether the lookahead ["\\/bfnrt]|u[0-9a-fA-F]{4} matches at offset i.
ValidEscapeAt(s, i) ==
    \/ CharAt(s, i) \in SimpleEscapes
    \/ /\ CharAt(s, i) = "u"
       /\ \A k \in 1..4 : CharAt(s, i + k) \in HexDigits

\* The characters of s at the offsets in keep, in order.
AtOffsets(s, keep) ==
    [j \in 1..Cardinality(keep) |->
        s[CHOOSE i \in keep : Cardinality({k \in keep : k <= i}) = j]]

\* Whether the pattern of _repair_invalid_escapes matches at offset i: a
\* backslash, no valid escape behind it, then any character but a newline.
\* A match never starts inside another, the character behind the backslash
\* of a match being no backslash.
InvalidEscapeAt(s, i) ==
    /\ s[i] = "BSL"
    /\ i + 1 <= Len(s)
    /\ s[i + 1] # "NL"
    /\ ~ValidEscapeAt(s, i + 1)

\* _repair_invalid_escapes(snippet): the backslash of each match is dropped.
_repair_invalid_escapes(snippet) ==
    AtOffsets(snippet, {i \in 1..Len(snippet) : ~InvalidEscapeAt(snippet, i)})

\* Whether ",\s*" + close matches at the comma at offset i.
TrailingCommaAt(s, i, close) ==
    s[i] = "," /\ CharAt(s, FirstNotIn(s, i + 1, Whitespace)) = close

\* Whether offset k lies in a match of ",\s*" + close, before close.
InTrailingComma(s, k, close) ==
    \E i \in 1..k :
        /\ TrailingCommaAt(s, i, close)
        /\ \A m \in (i + 1)..k : s[m] \in Whitespace

\* re.sub(",\s*" + close, close, s)
StripTrailingCommas(s, close) ==
    AtOffsets(s, {k \in 1..Len(s) : ~InTrailingComma(s, k, close)})

\* The trailing-comma repair of extract_json_from_response.
FixTrailingCommas(snippet) ==
    StripTrailingCommas(StripTrailingCommas(snippet, "}"), "]")

\* "escape" in err.lower() or "Invalid" in err, on the messages json raises.
ErrMentionsEscape(err) ==
    /\ err.t = "str"
    /\ err.s[1] \in {"Invalid escape", "Invalid uXXXX escape", "Invalid control character at"}

K_net_irr == <<"n", "e", "t", "_", "i", "r", "r">>

K_net_moic == <<"n", "e", "t", "_", "m", "o", "i", "c">>

K_net_dpi == <<"n", "e", "t", "_", "d", "p", "i">>

K_net_tvpi == <<"n", "e", "t", "_", "t", "v", "p", "i">>

K_irr == <<"i", "r", "r">>

K_moic == <<"m", "o", "i", "c">>

K_dpi == <<"d", "p", "i">>

K_tvpi == <<"t", "v", "p", "i">>

K_current_yield == <<"c", "u", "r", "r", "e", "n", "t", "_", "y", "i", "e", "l", "d">>

K_income_distribution_rate == <<"i", "n", "c", "o", "m", "e", "_", "d", "i", "s", "t", "r", "i", "b", "u", "t", "i", "o", "n", "_", "r", "a", "t", "e">>

K_gross_annualized_debt_itd_portfolio_yield == <<"g", "r", "o", "s", "s", "_", "a", "n", "n", "u", "a", "l", "i", "z", "e", "d", "_", "d", "e", "b", "t", "_", "i", "t", "d", "_", "p", "o", "r", "t", "f", "o", "l", "i", "o", "_", "y", "i", "e", "l", "d">>

K_total_distributions == <<"t", "o", "t", "a", "l", "_", "d", "i", "s", "t", "r", "i", "b", "u", "t", "i", "o", "n", "s">>

K_unrealized_value == <<"u", "n", "r", "e", "a", "l", "i", "z", "e", "d", "_", "v", "a", "l", "u", "e">>

K_closing_date_dec_3_month == <<"c", "l", "o", "s", "i", "n", "g", "_", "d", "a", "t", "e", "_", "d", "e", "c", "_", "3", "_", "m", "o", "n", "t", "h">>

K_yield == <<"y", "i", "e", "l", "d">>

K_ytd_whcm == <<"y", "t", "d", "_", "w", "h", "c", "m">>

K_gmv == <<"g", "m", "v">>

K_other_metric_label == <<"o", "t", "h", "e", "r", "_", "m", "e", "t", "r", "i", "c", "_", "l", "a", "b", "e", "l">>

K_other_metric_value == <<"o", "t", "h", "e", "r", "_", "m", "e", "t", "r", "i", "c", "_", "v", "a", "l", "u", "e">>

K_investment_performance == <<"i", "n", "v", "e", "s", "t", "m", "e", "n", "t", "_", "p", "e", "r", "f", "o", "r", "m", "a", "n", "c", "e">>

K_key_takeaways == <<"k", "e", "y", "_", "t", "a", "k", "e", "a", "w", "a", "y", "s">>

K_business_updates == <<"b", "u", "s", "i", "n", "e", "s", "s", "_", "u", "p", "d", "a", "t", "e", "s">>

\* CANONICAL_KEYS, in the order of the list.
CANONICAL_KEYS ==
    << K_irr,
       K_moic,
       K_dpi,
       K_tvpi,
       K_current_yield,
       K_income_distribution_rate,
       K_gross_annualized_debt_itd_portfolio_yield,
       K_total_distributions,
       K_unrealized_value,
       K_closing_date_dec_3_month,
       K_yield,
       K_ytd_whcm,
       K_gmv >>

\* The new-schema named fields normalize_prediction copies.
NamedFields ==
    << K_current_yield,
       K_income_distribution_rate,
       K_gross_annualized_debt_itd_portfolio_yield,
       K_total_distributions,
       K_unrealized_value,
       K_closing_date_dec_3_month,
       K_yield,
       K_ytd_whcm,
       K_gmv >>

\* OTHER_LABEL_TO_CANONICAL, as <<label, canonical key>> pairs.
OTHER_LABEL_TO_CANONICAL ==
    { <<<<"c", "u", "r", "r", "e", "n", "t", " ", "y", "i", "e", "l", "d">>, K_current_yield>>,
      <<<<"c", "u", "r", "r", "e", "n", "t", "_", "y", "i", "e", "l", "d">>, K_current_yield>>,
      <<<<"i", "n", "c", "o", "m", "e", " ", "d", "i", "s", "t", "r", "i", "b", "u", "t", "i", "o", "n", " ", "r", "a", "t", "e">>, K_income_distribution_rate>>,
      <<<<"i", "n", "c", "o", "m", "e", "_", "d", "i", "s", "t", "r", "i", "b", "u", "t", "i", "o", "n", "_", "r", "a", "t", "e">>, K_income_distribution_rate>>,
      <<<<"d", "i", "s", "t", "r", "i", "b", "u", "t", "i", "o", "n", " ", "r", "a", "t", "e">>, K_income_distribution_rate>>,
      <<<<"g", "r", "o", "s", "s", " ", "a", "n", "n", "u", "a", "l", "i", "z", "e", "d", " ", "d", "e", "b", "t", " ", "i", "t", "d", " ", "p", "o", "r", "t", "f", "o", "l", "i", "o", " ", "y", "i", "e", "l", "d">>, K_gross_annualized_debt_itd_portfolio_yield>>,
      <<<<"g", "r", "o", "s", "s", "_", "a", "n", "n", "u", "a", "l", "i", "z", "e", "d", "_", "d", "e", "b", "t", "_", "i", "t", "d", "_", "p", "o", "r", "t", "f", "o", "l", "i", "o", "_", "y", "i", "e", "l", "d">>, K_gross_annualized_debt_itd_portfolio_yield>>,
      <<<<"p", "o", "r", "t", "f", "o", "l", "i", "o", " ", "y", "i", "e", "l", "d">>, K_gross_annualized_debt_itd_portfolio_yield>>,
      <<<<"a", "n", "n", "u", "a", "l", "i", "z", "e", "d", " ", "d", "e", "b", "t", " ", "p", "o", "r", "t", "f", "o", "l", "i", "o", " ", "y", "i", "e", "l", "d">>, K_gross_annualized_debt_itd_portfolio_yield>>,
      <<<<"t", "o", "t", "a", "l", " ", "d", "i", "s", "t", "r", "i", "b", "u", "t", "i", "o", "n", "s">>, K_total_distributions>>,
      <<<<"t", "o", "t", "a", "l", "_", "d", "i", "s", "t", "r", "i", "b", "u", "t", "i", "o", "n", "s">>, K_total_distributions>>,
      <<<<"u", "n", "r", "e", "a", "l", "i", "z", "e", "d", " ", "v", "a", "l", "u", "e">>, K_unrealized_value>>,
      <<<<"u", "n", "r", "e", "a", "l", "i", "z", "e", "d", "_", "v", "a", "l", "u", "e">>, K_unrealized_value>>,
      <<<<"c", "l", "o", "s", "i", "n", "g", " ", "d", "a", "t", "e", " ", "d", "e", "c", " ", "3", " ", "m", "o", "n", "t", "h">>, K_closing_date_dec_3_month>>,
      <<<<"c", "l", "o", "s", "i", "n", "g", "_", "d", "a", "t", "e", "_", "d", "e", "c", "_", "3", "_", "m", "o", "n", "t", "h">>, K_closing_date_dec_3_month>>,
      <<<<"y", "i", "e", "l", "d">>, K_yield>>,
      <<<<"y", "t", "d", " ", "w", "h", "c", "m">>, K_ytd_whcm>>,
      <<<<"y", "t", "d", "_", "w", "h", "c", "m">>, K_ytd_whcm>>,
      <<<<"y", "t", "d", " ", "w", "h", "c", " ", "m">>, K_ytd_whcm>>,
      <<<<"g", "m", "v">>, K_gmv>>,
      <<<<"s", "p", "r", "e", "a", "d">>, K_yield>> }

\* rate_metrics of unit_normalize_pred.
rate_metrics ==
    { K_irr,
      K_current_yield,
      K_income_distribution_rate,
      K_gross_annualized_debt_itd_portfolio_yield,
      K_yield,
      K_ytd_whcm,
      K_total_distributions,
      K_unrealized_value,
      K_closing_date_dec_3_month }

Quoted(k) == <<"QUOTE">> \o k \o <<"QUOTE">>

\* Where the value starts when "<key>"\s*:\s* matches raw at offset p, colon
\* being the offset after the key and whitespace; else 0.
PartialAfterKey(raw, q, p, colon) ==
    IF MatchAt(raw, q, p) /\ CharAt(raw, colon) = ":"
    THEN SkipWs(raw, colon + 1) ELSE 0

PartialValueStart(raw, key, p) ==
    PartialAfterKey(raw, Quoted(key), p, SkipWs(raw, p + Len(key) + 2))

\* Whether (-?\d+\.?\d*|null) matches raw at offset v (0: the key did not match).
PartialValueAt(raw, v) ==
    /\ v # 0
    /\ \/ MatchAt(raw, <<"n", "u", "l", "l">>, v)
       \/ CharAt(raw, IF CharAt(raw, v) = "-" THEN v + 1 ELSE v) \in Digits

\* The number matched from offset v, its integer digits ending at ie.
PartialNumber(raw, v, ie) ==
    ParseFloat(SubSeq(raw, v, (IF CharAt(raw, ie) = "." THEN SkipDigits(raw, ie + 1) ELSE ie) - 1)).val

\* The value of the group matched at offset v.
PartialValue(raw, v) ==
    IF MatchAt(raw, <<"n", "u", "l", "l">>, v) THEN PyNone
    ELSE PartialNumber(raw, v, SkipDigits(raw, IF CharAt(raw, v) = "-" THEN v + 1 ELSE v))

\* re.search in _extract_partial_json: the first offset where the pattern
\* of key matches, 0 when none.
PartialSearch(raw, key) ==
    LeastOf({p \in 1..Len(raw) : PartialValueAt(raw, PartialValueStart(raw, key, p))})

\* Pairs that leave out a key whose first match is null.
PartialPairSkipsNull(raw, key, p) ==
    IF p = 0 \/ IsNone(PartialValue(raw, PartialValueStart(raw, key, p))) THEN <<>>
    ELSE << <<key, PartialValue(raw, PartialValueStart(raw, key, p))>> >>

\* The pairs the key contributes, its pattern first matching at p.
PartialPairAt(raw, key, p) ==
    IF p = 0 THEN <<>>
    ELSE << <<key, PartialValue(raw, PartialValueStart(raw, key, p))>> >>

PartialPair(raw, key) == PartialPairAt(raw, key, PartialSearch(raw, key))

\* _extract_partial_json(raw)
_extract_partial_json(raw) ==
    PyDict(PartialPair(raw, K_net_irr) \o PartialPair(raw, K_net_moic) \o PartialPair(raw, K_net_dpi))

ErrTruncated == PyStr(<<"Truncated JSON; extracted partial metrics">>)

ErrNoObject == PyStr(<<"No JSON object found in response">>)

Parsed(data) == [data |-> data, err |-> PyNone]

ParseFailed(err) == [data |-> PyDict(<<>>), err |-> err]

\* No object found and a response that reports no error for it.
NoObjectNoError(partial) == Parsed(partial)

\* No object found: the partial metrics of a truncated response, if any.
NoObject(partial) ==
    IF partial.o # <<>> THEN [data |-> partial, err |-> ErrTruncated]
    ELSE ParseFailed(ErrNoObject)

\* The last attempt: the comma-fixed snippet with escapes repaired gave third.
AfterFixedRepair(err, third) ==
    IF ~IsNone(third.data) THEN Parsed(third.data) ELSE ParseFailed(err)

\* The comma-fixed snippet gave second.
AfterFixed(fixed, err, second) ==
    IF ~IsNone(second.data) THEN Parsed(second.data)
    ELSE IF ErrMentionsEscape(err)
    THEN AfterFixedRepair(err, _try_parse_json(_repair_invalid_escapes(fixed)))
    ELSE ParseFailed(err)

TryFixed(fixed, err) == AfterFixed(fixed, err, _try_parse_json(fixed))

\* The snippet with escapes repaired gave repaired.
AfterRepair(snippet, err, repaired) ==
    IF ~IsNone(repaired.data) THEN Parsed(repaired.data)
    ELSE TryFixed(FixTrailingCommas(snippet), err)

\* The snippet gave first.
AfterFirst(snippet, first) ==
    IF ~IsNone(first.data) THEN Parsed(first.data)
    ELSE IF ErrMentionsEscape(first.err)
    THEN AfterRepair(snippet, first.err, _try_parse_json(_repair_invalid_escapes(snippet)))
    ELSE TryFixed(FixTrailingCommas(snippet), first.err)

\* extract_json_from_response once the object is looked for in raw.
ExtractWithSnippet(raw, snippet) ==
    IF ~snippet.found THEN NoObject(_extract_partial_json(raw))
    ELSE AfterFirst(snippet.s, _try_parse_json(snippet.s))

ExtractFromRaw(raw) == ExtractWithSnippet(raw, _extract_first_json_object(raw))

\* extract_json_from_response(content): [data, err], err None on success.
\* An error message is a string of one symbol, the whole message.
extract_json_from_response(content) == ExtractFromRaw(Strip(content))

(***************************************************************************)
(* Float arithmetic on the numbers of the model: finite values, the two    *)
(* infinities and NaN.                                                     *)
(***************************************************************************)
IsNaN(x) == x.t = "nan"

\* Larger than any finite value of the model.
Big == 2 * 1000 * 1000 * 1000

Ext(x) == IF x.t = "inf" THEN x.v * Big ELSE x.v

\* a <= b and a < b: false when either is NaN.
FLe(a, b) == ~IsNaN(a) /\ ~IsNaN(b) /\ Ext(a) <= Ext(b)

FLt(a, b) == ~IsNaN(a) /\ ~IsNaN(b) /\ Ext(a) < Ext(b)

FSub(a, b) ==
    CASE IsNaN(a) \/ IsNaN(b) -> PyNaN
      [] a.t = "inf" /\ b.t = "inf" -> IF a.v = b.v THEN PyNaN ELSE a
      [] a.t = "inf" -> a
      [] b.t = "inf" -> PyInf(-b.v)
      [] OTHER -> PyNum(a.v - b.v)

FAbs(a) ==
    CASE a.t = "num" -> PyNum(Abs(a.v))
      [] a.t = "inf" -> PyInf(1)
      [] OTHER -> a

\* n / 100 to the nearest unit.
Div100(n) ==
    LET q == Abs(n) \div 100
        r == Abs(n) % 100
        m == IF r >= 50 THEN q + 1 ELSE q
    IN IF n < 0 THEN -m ELSE m

FDiv100(a) == IF a.t = "num" THEN PyNum(Div100(a.v)) ELSE a

FMul100(a) == IF a.t = "num" THEN PyNum(a.v * 100) ELSE a

POne == PyNum(Unit)

(***************************************************************************)
(* Metric Canonicalizer.                                                   *)
(***************************************************************************)
\* The characters the class \w matches.
WordChars ==
    {UpperSeq[i] : i \in 1..26} \cup {LowerSeq[i] : i \in 1..26} \cup Digits \cup {"_"}

\* str(x): the characters of a string; any other object prints as text that
\* is no label of the table.
StrOf(x) == IF x.t = "str" THEN x.s ELSE <<"OBJ">>

\* The offset of the first whitespace of t from offset i, Len(t) + 1 if none.
WordEnd(t, i) == IF i > Len(t) THEN i ELSE FirstIn(t, i, Whitespace)

JoinWord(w, rest) == IF rest = <<>> THEN w ELSE w \o <<" ">> \o rest

\* " ".join(t.split()) for t without leading whitespace.
RECURSIVE CollapseFrom(_)
CollapseWord(t, sp) ==
    JoinWord(SubSeq(t, 1, sp - 1), CollapseFrom(LStrip(SubSeq(t, sp, Len(t)), Whitespace)))

CollapseFrom(t) == IF t = <<>> THEN <<>> ELSE CollapseWord(t, WordEnd(t, 1))

\* " ".join(s.split())
CollapseWs(s) == CollapseFrom(LStrip(s, Whitespace))

\* re.sub(r"[^\w\s]", " ", low)
BlankPunctuation(low) ==
    [i \in 1..Len(low) |-> IF low[i] \in WordChars \cup Whitespace THEN low[i] ELSE " "]

\* canonicalize_label(label)
canonicalize_label(label) ==
    IF ~Truthy(label) \/ Strip(StrOf(label)) = <<>> THEN <<>>
    ELSE CollapseWs(BlankPunctuation(Lower(StrOf(label))))

ReplaceChar(s, a, b) == [i \in 1..Len(s) |-> IF s[i] = a THEN b ELSE s[i]]

\* _normalize_label_for_lookup(label)
_normalize_label_for_lookup(label) == ReplaceChar(canonicalize_label(label), " ", "_")

\* OTHER_LABEL_TO_CANONICAL.get(key): <<>> stands for None.
OtherLabelGet(key) ==
    IF \E e \in OTHER_LABEL_TO_CANONICAL : e[1] = key
    THEN (CHOOSE e \in OTHER_LABEL_TO_CANONICAL : e[1] = key)[2]
    ELSE <<>>

\* {k: None for k in CANONICAL_KEYS}
AllNoneCanon == PyDict([i \in 1..Len(CANONICAL_KEYS) |-> <<CANONICAL_KEYS[i], PyNone>>])

\* The loop over the new-schema named fields, from the i-th on.
RECURSIVE CopyNamedFields(_, _, _)
CopyNamedFields(pred_json, out, i) ==
    IF i > Len(NamedFields) THEN out
    ELSE LET key == NamedFields[i]
         IN IF DictHas(pred_json, key) /\ ~IsNone(DictGet(pred_json, key))
            THEN CopyNamedFields(pred_json,
                                 DictSet(out, key, normalize_value(DictGet(pred_json, key))),
                                 i + 1)
            ELSE CopyNamedFields(pred_json, out, i + 1)

\* A setter that overwrites a key a named field populated.
SetAlways(out, canonical_key, ov) ==
    IF canonical_key # <<>> THEN DictSet(out, canonical_key, normalize_value(ov)) ELSE out

\* out[canonical_key] = normalize_value(ov) when the key is set and still None.
SetIfUnset(out, canonical_key, ov) ==
    IF canonical_key # <<>> /\ IsNone(DictGet(PyDict(out), canonical_key))
    THEN DictSet(out, canonical_key, normalize_value(ov))
    ELSE out

\* out[k] = normalize_value(pred_json.get(k) or pred_json.get(nk))
CoreMetric(pred_json, out, k, nk) ==
    DictSet(out, k, normalize_value(PyOr(DictGet(pred_json, k), DictGet(pred_json, nk))))

\* The four core metrics: new key else old key.
CoreMetrics(pred_json) ==
    CoreMetric(pred_json,
               CoreMetric(pred_json,
                          CoreMetric(pred_json,
                                     CoreMetric(pred_json, AllNoneCanon.o, K_irr, K_net_irr),
                                     K_moic, K_net_moic),
                          K_dpi, K_net_dpi),
               K_tvpi, K_net_tvpi)

\* The other metric under its label's canonical key, else under the key of
\* the label with spaces.
MapOtherKey(out, norm_label, canonical_key, ov) ==
    IF canonical_key # <<>> THEN SetIfUnset(out, canonical_key, ov)
    ELSE SetIfUnset(out, OtherLabelGet(ReplaceChar(norm_label, "_", " ")), ov)

MapOtherLabel(out, norm_label, ov) ==
    MapOtherKey(out, norm_label, OtherLabelGet(norm_label), ov)

\* Old other_metric_label / other_metric_value -> canonical key.
MapOtherMetric(out, ol, ov) ==
    IF ~IsNone(ol) /\ Strip(StrOf(ol)) # <<>> /\ ~IsNone(ov)
    THEN MapOtherLabel(out, _normalize_label_for_lookup(PyStr(StrOf(ol))), ov)
    ELSE out

\* normalize_prediction(pred_json): the canonical dict, as a dict value.
normalize_prediction(pred_json) ==
    IF ~Truthy(pred_json) \/ pred_json.t # "dict" THEN AllNoneCanon
    ELSE PyDict(MapOtherMetric(CopyNamedFields(pred_json, CoreMetrics(pred_json), 1),
                               DictGet(pred_json, K_other_metric_label),
                               DictGet(pred_json, K_other_metric_value)))

\* OTHER_LABEL_TO_CANONICAL.get(norm) or OTHER_LABEL_TO_CANONICAL.get(alt),
\* k1 being the first lookup.
FirstKey(k1, alt) == IF k1 # <<>> THEN k1 ELSE OtherLabelGet(alt)

\* canon.get(key) if key else None
CanonGet(canon, key) == IF key # <<>> THEN DictGet(canon, key) ELSE PyNone

ResolveNorm(canon, norm) ==
    CanonGet(canon, FirstKey(OtherLabelGet(norm), ReplaceChar(norm, "_", " ")))

\* resolve_other_pred_from_canon(canon, gt_other_label)
resolve_other_pred_from_canon(canon, gt_other_label) ==
    IF ~Truthy(gt_other_label) \/ Strip(StrOf(gt_other_label)) = <<>> THEN PyNone
    ELSE ResolveNorm(canon, _normalize_label_for_lookup(PyStr(StrOf(gt_other_label))))

(***************************************************************************)
(* Unit Reconciler.                                                        *)
(***************************************************************************)
\* label_hint and ("bp" in label_hint.lower() or "bps" in label_hint.lower())
HintHasBps(label_hint) ==
    /\ Truthy(label_hint)
    /\ label_hint.t = "str"
    /\ \/ Contains(Lower(label_hint.s), <<"b", "p">>)
       \/ Contains(Lower(label_hint.s), <<"b", "p", "s">>)

\* A reconciliation that divides a percent by 100 whenever the expected
\* value is a fraction, whether or not that reduces the error.
ReconcileUnitsAlwaysDivides(p, gt_val, metric_kind) ==
    IF metric_kind \notin rate_metrics \/ IsNone(gt_val) THEN p
    ELSE IF FLt(POne, FAbs(gt_val)) /\ FLe(FAbs(p), POne) THEN FMul100(p)
    ELSE IF FLt(FAbs(gt_val), POne) /\ FLt(POne, FAbs(p)) THEN FDiv100(p)
    ELSE p

\* unit_normalize_pred after the bps conversion, p being pred_val by then.
ReconcileUnits(p, gt_val, metric_kind) ==
    CASE metric_kind \notin rate_metrics -> p
      [] IsNone(gt_val) -> p
      [] FLt(POne, FAbs(gt_val)) /\ FLe(FAbs(p), POne) -> FMul100(p)
      [] /\ FLt(FAbs(gt_val), POne)
         /\ FLt(POne, FAbs(p))
         /\ FLt(FAbs(FSub(gt_val, FDiv100(p))), FAbs(FSub(gt_val, p))) -> FDiv100(p)
      [] OTHER -> p

\* A unit_normalize_pred that converts basis points after the rate checks.
unit_normalize_pred_bps_last(pred_val, gt_val, metric_kind, label_hint) ==
    IF IsNone(pred_val) THEN PyNone
    ELSE IF HintHasBps(label_hint)
         THEN FDiv100(ReconcileUnits(pred_val, gt_val, metric_kind))
         ELSE ReconcileUnits(pred_val, gt_val, metric_kind)

\* unit_normalize_pred(pred_val, gt_val, metric_kind, label_hint)
unit_normalize_pred(pred_val, gt_val, metric_kind, label_hint) ==
    IF IsNone(pred_val) THEN PyNone
    ELSE ReconcileUnits(IF HintHasBps(label_hint) THEN FDiv100(pred_val) ELSE pred_val,
                        gt_val, metric_kind)

(***************************************************************************)
(* Scorer: candidate numbers and liberal matching.                         *)
(***************************************************************************)
\* The default tolerance, 0.01.
Tolerance == Unit \div 100

\* values_match(gt, pred, tolerance)
values_match(gt_v, pred, tolerance) ==
    CASE IsNone(gt_v) /\ IsNone(pred) -> TRUE
      [] IsNone(gt_v) \/ IsNone(pred) -> FALSE
      [] OTHER -> FLe(FAbs(FSub(gt_v, pred)), PyNum(tolerance))

\* gt_value_appears_in_set(gt_val, numbers, tolerance, allow_scale_flex)
gt_value_appears_in_set(gt_val, numbers, tolerance, allow_scale_flex) ==
    \/ IsNone(gt_val)
    \/ \E i \in 1..Len(numbers) :
          \/ values_match(gt_val, numbers[i], tolerance)
          \/ /\ allow_scale_flex
             /\ \/ values_match(gt_val, FMul100(numbers[i]), tolerance)
                \/ values_match(gt_val, FDiv100(numbers[i]), tolerance)

\* The end (exclusive) of the groups (,\d{3})* from offset i.
RECURSIVE SkipThousands(_, _)
SkipThousands(s, i) ==
    IF /\ CharAt(s, i) = ","
       /\ \A k \in 1..3 : CharAt(s, i + k) \in Digits
    THEN SkipThousands(s, i + 4) ELSE i

\* After the digits and the whitespace behind them: the optional unit marker.
NumericSuffix(s, w) == IF CharAt(s, w) \in {"%", "x", "MULT"} THEN w + 1 ELSE w

\* The end of the match whose digits start at offset j, 0 when none do.
NumericFrom(s, j) ==
    IF CharAt(s, j) \notin Digits THEN 0
    ELSE NumericSuffix(s, SkipWs(s, FractionEnd(s, SkipThousands(s, SkipDigits(s, j)))))

\* The end (exclusive) of the match of _RE_NUMERIC_IN_TEXT starting at offset
\* i, 0 when it does not match there.  Its first alternative matches
\* wherever the second does.
NumericMatchEnd(s, i) == NumericFrom(s, IF CharAt(s, i) = "-" THEN i + 1 ELSE i)

\* The text float() is given for the match raw.
NumericText(raw) ==
    Strip(RemoveChar(RStrip(Strip(raw), {"%", "x", "MULT", "X"}), ","))

RECURSIVE NumbersFrom(_, _)

\* The match ending at e parsed as f: kept unless float() raised.
NumbersWith(s, e, f) ==
    IF f.ok THEN <<f.val>> \o NumbersFrom(s, e) ELSE NumbersFrom(s, e)

\* The match from offset i to e.
NumbersAt(s, i, e) == NumbersWith(s, e, ParseFloat(NumericText(SubSeq(s, i, e - 1))))

\* The numbers of the matches from the one starting at offset i (0: no more).
NumbersStart(s, i) == IF i = 0 THEN <<>> ELSE NumbersAt(s, i, NumericMatchEnd(s, i))

\* _numbers_from_string(s), scanning from offset i: finditer goes on from the
\* first offset where the pattern matches.
NumbersFrom(s, i) ==
    NumbersStart(s, LeastOf({j \in i..Len(s) : NumericMatchEnd(s, j) # 0}))

_numbers_from_string(s) == IF s.t = "str" /\ s.s # <<>> THEN NumbersFrom(s.s, 1) ELSE <<>>

\* The numbers one item of a free-text array contributes.
NumbersOfItem(item) ==
    CASE item.t = "str" -> _numbers_from_string(item)
      [] item.t = "num" -> <<item>>
      [] item.t = "inf" -> <<item>>
      [] item.t = "bool" -> <<PyNum(item.v * Unit)>>
      [] OTHER -> <<>>

RECURSIVE NumbersOfItems(_)
NumbersOfItems(items) ==
    IF items = <<>> THEN <<>>
    ELSE NumbersOfItem(Head(items)) \o NumbersOfItems(Tail(items))

\* [n] unless n is None.
NumberList(n) == IF IsNone(n) THEN <<>> ELSE <<n>>

\* The numbers of the free-text array a, none when a is no list.
ArrayNumbers(a) == IF a.t = "list" THEN NumbersOfItems(a.o) ELSE <<>>

\* extract_all_performance_numbers(data)
extract_all_performance_numbers(data) ==
    IF ~Truthy(data) \/ data.t # "dict" THEN <<>>
    ELSE NumberList(normalize_value(DictGet(data, K_net_irr)))
         \o NumberList(normalize_value(DictGet(data, K_net_moic)))
         \o NumberList(normalize_value(DictGet(data, K_net_dpi)))
         \o ArrayNumbers(DictGet(data, K_investment_performance))
         \o ArrayNumbers(DictGet(data, K_key_takeaways))
         \o ArrayNumbers(DictGet(data, K_business_updates))

\* extract_numbers_from_raw_response(raw_response)
extract_numbers_from_raw_response(raw_response) == _numbers_from_string(PyStr(raw_response))

(***************************************************************************)
(* Ground Truth Loader: the single-document JSON file.                     *)
(*                                                                         *)
(* The three searches of _parse_metrics_from_performance_list are regular  *)
(* expressions whose alternatives are flat sequences of literals and       *)
(* character classes.  In each sequence a repeated class is followed by an *)
(* element that cannot start inside the class, so the greedy match is the  *)
(* only match and the sequences can be matched left to right.              *)
(***************************************************************************)
Lit(w) == [k |-> "lit", w |-> w, c |-> {}]
Plus(c) == [k |-> "plus", w |-> <<>>, c |-> c]
Star(c) == [k |-> "star", w |-> <<>>, c |-> c]
Opt(c) == [k |-> "opt", w |-> <<>>, c |-> c]
OneOf(c) == [k |-> "one", w |-> <<>>, c |-> c]
Cap(c) == [k |-> "cap", w |-> <<>>, c |-> c]
Lazy == [k |-> "lazy", w |-> <<>>, c |-> {}]

\* The end (exclusive) of the longest run of characters of c from offset i.
SkipClass(s, i, c) == IF i > Len(s) THEN i ELSE FirstNotIn(s, i, c)

NoMatch == [ok |-> FALSE, end |-> 0, cap |-> <<>>]

RECURSIVE MatchSeq(_, _, _, _, _)

\* The match of pat[k..] at offset i, 0 standing for no offset.
MatchFrom(s, i, pat, k, cap) == IF i = 0 THEN NoMatch ELSE MatchSeq(s, i, pat, k, cap)

\* Match the element e = pat[k] and what follows it from the i-th character
\* of s, j being the end of the longest run of characters of e.c from there.
\* A lazy .*? stops at the nearest offset where the rest matches, without
\* crossing a line end.
MatchElem(s, i, pat, k, cap, e, j) ==
    CASE e.k = "lit" ->
            IF Len(s) - i + 1 >= Len(e.w) /\ Lower(SubSeq(s, i, i + Len(e.w) - 1)) = e.w
            THEN MatchSeq(s, i + Len(e.w), pat, k + 1, cap) ELSE NoMatch
      [] e.k = "plus" -> IF j > i THEN MatchSeq(s, j, pat, k + 1, cap) ELSE NoMatch
      [] e.k = "star" -> MatchSeq(s, j, pat, k + 1, cap)
      [] e.k = "opt" -> MatchSeq(s, IF j > i THEN i + 1 ELSE i, pat, k + 1, cap)
      [] e.k = "one" -> IF j > i THEN MatchSeq(s, i + 1, pat, k + 1, cap) ELSE NoMatch
      [] e.k = "cap" ->
            IF j > i THEN MatchSeq(s, j, pat, k + 1, SubSeq(s, i, j - 1)) ELSE NoMatch
      [] OTHER ->
            MatchFrom(s, LeastOf({n \in i..(Len(s) + 1) :
                                     /\ \A m \in i..(n - 1) : s[m] # "NL"
                                     /\ MatchSeq(s, n, pat, k + 1, cap).ok}),
                      pat, k + 1, cap)

\* Match the sequence pat[k..] from the i-th character of s (re.I: letters
\* compare in lower case); cap is the text of the capturing group.
MatchSeq(s, i, pat, k, cap) ==
    IF k > Len(pat) THEN [ok |-> TRUE, end |-> i, cap |-> cap]
    ELSE MatchElem(s, i, pat, k, cap, pat[k], SkipClass(s, i, pat[k].c))

\* The match of the n-th of the sequences pats at offset i, 0 standing for none.
MatchNth(s, i, pats, n) == IF n = 0 THEN NoMatch ELSE MatchSeq(s, i, pats[n], 1, <<>>)

\* The first of the sequences pats that matches at offset i.
MatchAny(s, i, pats) ==
    MatchNth(s, i, pats, LeastOf({n \in 1..Len(pats) : MatchSeq(s, i, pats[n], 1, <<>>).ok}))

MatchAnyFrom(s, i, pats) == IF i = 0 THEN NoMatch ELSE MatchAny(s, i, pats)

\* re.search: the match at the leftmost offset, alternatives in order.
ReSearch(s, pats) ==
    MatchAnyFrom(s, LeastOf({i \in 1..Len(s) : MatchAny(s, i, pats).ok}), pats)

DigitsDot == Digits \cup {"."}
ColonWs == Whitespace \cup {":"}
XMult == {"x", "X", "MULT"}
W_net == <<"n", "e", "t">>
W_gross == <<"g", "r", "o", "s", "s">>
W_irr == <<"i", "r", "r">>
W_moic == <<"m", "o", "i", "c">>
W_tvpi == <<"t", "v", "p", "i">>
W_dpi == <<"d", "p", "i">>
W_gross_irr == W_gross \o <<" ">> \o W_irr
W_fund_performance ==
    <<"f", "u", "n", "d", " ", "p", "e", "r", "f", "o", "r", "m", "a", "n", "c", "e", ":">>

IrrTail == <<Plus(ColonWs), Opt({"~"}), Cap(DigitsDot), Star(Whitespace), OneOf({"%"})>>
PctGrossIrr == <<Cap(DigitsDot), Star(Whitespace), OneOf({"%"}), Star(Whitespace), Lit(W_gross_irr)>>
IrrPatterns ==
    << <<Lit(W_net), Plus(Whitespace), Lit(W_irr)>> \o IrrTail,
       <<Lit(W_gross), Plus(Whitespace), Lit(W_irr)>> \o IrrTail,
       <<Lit(W_irr)>> \o IrrTail,
       <<Lit(W_fund_performance), Lazy>> \o PctGrossIrr,
       <<Opt({"~"})>> \o PctGrossIrr >>

MultTail == <<Plus(ColonWs), Cap(DigitsDot), Star(Whitespace), OneOf(XMult)>>
MultHead == <<Cap(DigitsDot), Star(Whitespace), OneOf(XMult), Star(Whitespace)>>
MoicPatterns ==
    << <<Lit(W_net), Plus(Whitespace), Lit(W_moic)>> \o MultTail,
       <<Lit(W_net), Plus(Whitespace), Lit(W_tvpi)>> \o MultTail,
       <<Lit(W_moic)>> \o MultTail,
       <<Lit(W_tvpi)>> \o MultTail,
       <<Lit(W_gross), Plus(Whitespace), Lit(W_tvpi)>> \o MultTail,
       MultHead \o <<Lit(W_gross), Plus(Whitespace), Lit(W_tvpi)>>,
       MultHead \o <<Lit(W_gross), Plus(Whitespace), Lit(W_moic)>>,
       MultHead \o <<Lit(W_tvpi)>>,
       MultHead \o <<Lit(W_moic)>>,
       <<Lit(W_fund_performance), Star(Whitespace), Cap(DigitsDot), Star(Whitespace), OneOf(XMult)>> >>

DpiTail == <<Plus(ColonWs), Cap(DigitsDot), Star(Whitespace), OneOf({"x", "X", "%"})>>
DpiPatterns ==
    << <<Lit(W_net), Plus(Whitespace), Lit(W_dpi)>> \o DpiTail,
       <<Lit(W_dpi)>> \o DpiTail >>


\* float(val) of a captured group, raising ValueError when val is no number.
GroupFloat(m) == ParseFloat(RemoveChar(m.cap, ","))

Raised == [raised |-> TRUE, out |-> <<>>]

\* out[key] = float(val), f being the float or the ValueError.
SetFloat(st, key, f) ==
    IF f.ok THEN [raised |-> FALSE, out |-> DictSet(st.out, key, f.val)] ELSE Raised

\* One search of a line: when it matched (m) and out[key] is still None, the
\* group's value is stored.  st holds out, or that an earlier step raised.
SetMetric(st, key, m) ==
    IF st.raised \/ ~m.ok \/ ~IsNone(DictGet(PyDict(st.out), key)) THEN st
    ELSE SetFloat(st, key, GroupFloat(m))

RECURSIVE ParsePerfLines(_, _, _)

\* After the three searches of the n-th line.
PerfNext(perf, n, st) ==
    IF st.raised THEN Raised ELSE ParsePerfLines(perf, n + 1, st.out)

\* The n-th line, stripped and not empty.
PerfLine(perf, n, out, line) ==
    PerfNext(perf, n,
             SetMetric(SetMetric(SetMetric([raised |-> FALSE, out |-> out],
                                           K_net_irr, ReSearch(line, IrrPatterns)),
                                 K_net_moic, ReSearch(line, MoicPatterns)),
                       K_net_dpi, ReSearch(line, DpiPatterns)))

PerfStripped(perf, n, out, line) ==
    IF line = <<>> THEN ParsePerfLines(perf, n + 1, out) ELSE PerfLine(perf, n, out, line)

\* The n-th item: (line or "").strip() raises for a true value that is no string.
PerfItem(perf, n, out, item) ==
    IF ~Truthy(item) THEN ParsePerfLines(perf, n + 1, out)
    ELSE IF item.t # "str" THEN Raised
    ELSE PerfStripped(perf, n, out, Strip(item.s))

\* _parse_metrics_from_performance_list(perf), from the n-th line on, out
\* holding what the lines before have set.  The result is the dictionary, or
\* raised when a line is no string or a captured group is no number.
ParsePerfLines(perf, n, out) ==
    IF n > Len(perf) THEN [raised |-> FALSE, out |-> out]
    ELSE PerfItem(perf, n, out, perf[n])

NoMetrics == <<<<K_net_irr, PyNone>>, <<K_net_moic, PyNone>>, <<K_net_dpi, PyNone>>>>

_parse_metrics_from_performance_list(perf) == ParsePerfLines(perf, 1, NoMetrics)

\* normalize_value(v) if v is not None else None
NormalizeIfSet(v) == IF IsNone(v) THEN PyNone ELSE normalize_value(v)

\* The explicit format: the three expected values as the file gives them.
ExplicitMetrics(data) ==
    << <<K_net_irr, DictGet(data, K_net_irr)>>,
       <<K_net_moic, DictGet(data, K_net_moic)>>,
       <<K_net_dpi, DictGet(data, K_net_dpi)>> >>

\* The other metric of the explicit format, when the file names it.
OtherMetric(data) ==
    IF DictHas(data, K_other_metric_label) \/ DictHas(data, K_other_metric_value)
    THEN << <<K_other_metric_label, DictGet(data, K_other_metric_label)>>,
            <<K_other_metric_value, NormalizeIfSet(DictGet(data, K_other_metric_value))>> >>
    ELSE <<>>

PerfResult(r) == [raised |-> r.raised, out |-> PyDict(r.out)]

\* The existing format, perf being data.get("investment_performance") or [].
LoadPerformance(perf) ==
    IF perf.t = "list" THEN PerfResult(_parse_metrics_from_performance_list(perf.o))
    ELSE [raised |-> FALSE, out |-> PyDict(NoMetrics)]

LoadData(data) ==
    IF DictHas(data, K_net_irr) \/ DictHas(data, K_net_moic) \/ DictHas(data, K_net_dpi)
    THEN [raised |-> FALSE, out |-> PyDict(ExplicitMetrics(data) \o OtherMetric(data))]
    ELSE LoadPerformance(PyOr(DictGet(data, K_investment_performance), PyList(<<>>)))

LoadParsed(parsed) ==
    IF ~parsed.ok \/ parsed.val.t # "dict" THEN [raised |-> TRUE, out |-> PyDict(<<>>)]
    ELSE LoadData(parsed.val)

\* load_ground_truth(path), content being the text of the file at path.  The
\* result is the dictionary returned, or raised when the call ends in an
\* exception (text that is not JSON, a document that is not an object, a
\* performance line that cannot be read).
load_ground_truth(content) == LoadParsed(JsonLoads(content))

(***************************************************************************)
(* Scorer: one document against every model.                               *)
(***************************************************************************)
_FAILURE_LOG_MAX == 5

\* The api_id of each entry of MODELS.
MODELS ==
    << "gpt-5.2", "gpt-5-mini", "gpt-5-nano", "claude-sonnet-4-20250514",
       "claude-haiku-4-5-20251001", "claude-3-haiku-20240307", "gemini-2.5-flash" >>

\* The provider's result for content, ex being what the extractor gave.
RunModelParsed(content, ex) ==
    [ canon |-> normalize_prediction(ex.data), raw_response |-> content,
      parse_ok |-> IsNone(ex.err), parse_error |-> ex.err, data |-> ex.data ]

\* run_model(model_id, provider, pdf_text) when the provider answers with
\* content: the part of the returned tuple the scorer reads (token counts
\* and cost are carried to the row untouched and are left out).
run_model(content) == RunModelParsed(content, extract_json_from_response(content))

\* The except branch of the loop body: run_model raised e, msg being str(e).
RunModelRaised(msg) ==
    [ canon |-> AllNoneCanon, raw_response |-> <<>>,
      parse_ok |-> FALSE, parse_error |-> PyStr(msg), data |-> PyDict(<<>>) ]

\* x if x is not None else ""
OrEmpty(x) == IF IsNone(x) THEN PyStr(<<>>) ELSE x

\* The ground truth as compute_score_from_gt_and_matches reads it.
GtRead(gt) ==
    [ net_irr |-> DictGet(gt, K_net_irr), net_moic |-> DictGet(gt, K_net_moic),
      net_dpi |-> DictGet(gt, K_net_dpi),
      other_metric_value |-> DictGet(gt, K_other_metric_value) ]

\* The match flag counting an absent expected value as a miss.
MatchFlagAbsentIsMiss(gt_val, numbers, tolerance, allow_scale_flex) ==
    IF IsNone(gt_val) THEN 0
    ELSE IF gt_value_appears_in_set(gt_val, numbers, tolerance, allow_scale_flex) THEN 1
    ELSE 0

\* 1 if the expected value is absent or appears among numbers, else 0.
MatchFlag(gt_val, numbers, tolerance, allow_scale_flex) ==
    IF IsNone(gt_val) THEN 1
    ELSE IF gt_value_appears_in_set(gt_val, numbers, tolerance, allow_scale_flex) THEN 1
    ELSE 0

\* The kind of the other metric: the canonical key of its label, else yield.
OtherMetricKind(ol, key) == IF Truthy(ol) /\ key # <<>> THEN key ELSE K_yield

\* _ol_str: str(_ol) if _ol else ""
LabelText(ol) == IF Truthy(ol) THEN PyStr(StrOf(ol)) ELSE PyStr(<<>>)

\* The lookup of the label's canonical key in the loop body.
LabelKey(ol_str) ==
    FirstKey(OtherLabelGet(_normalize_label_for_lookup(ol_str)),
             ReplaceChar(canonicalize_label(ol_str), " ", "_"))

\* The other metric's predicted value for display.
OtherPred(resolved, other_gt_val, other_metric_kind, ol_str) ==
    IF ~IsNone(other_gt_val) /\ ~IsNone(resolved)
    THEN unit_normalize_pred(resolved, other_gt_val, other_metric_kind, ol_str)
    ELSE resolved

\* metrics_in_denom
MetricsInDenom(sc, other_metric_kind) ==
    (IF sc.irr_in_scope THEN <<K_irr>> ELSE <<>>)
    \o (IF sc.moic_in_scope THEN <<K_moic>> ELSE <<>>)
    \o (IF sc.dpi_in_scope THEN <<K_dpi>> ELSE <<>>)
    \o (IF sc.other_in_scope THEN <<other_metric_kind>> ELSE <<>>)

\* The test guarding the failure log.
LogsFailure(count, sc) ==
    /\ count < _FAILURE_LOG_MAX
    /\ sc.score_denom > 0
    /\ sc.overall_score # PyStr(<<>>)
    /\ FLt(sc.overall_score, POne)

\* The row appended and the new value of _FAILURE_LOG_COUNT, count being its
\* value before.  grading_explanation keeps the parts of the text: the
\* metrics in the denominator and the two counts.
BuildRow(gt, model_id, r, count, numbers, m, sc, other_metric_kind, other_pred_val) ==
    [ count |-> IF LogsFailure(count, sc) THEN count + 1 ELSE count,
      row |-> [ model_id |-> model_id,
                parse_ok |-> r.parse_ok,
                parse_error |-> OrEmpty(r.parse_error),
                overall_score |-> sc.overall_score,
                overall_score_is_na |-> sc.overall_score_is_na,
                irr_gt |-> OrEmpty(DictGet(gt, K_net_irr)),
                irr_pred |-> OrEmpty(DictGet(r.canon, K_irr)),
                irr_match |-> m.irr,
                moic_gt |-> OrEmpty(DictGet(gt, K_net_moic)),
                moic_pred |-> OrEmpty(DictGet(r.canon, K_moic)),
                moic_match |-> m.moic,
                dpi_gt |-> OrEmpty(DictGet(gt, K_net_dpi)),
                dpi_pred |-> OrEmpty(DictGet(r.canon, K_dpi)),
                dpi_match |-> m.dpi,
                other_metric_label_gt |-> PyOr(DictGet(gt, K_other_metric_label), PyStr(<<>>)),
                other_metric_value_gt |-> OrEmpty(DictGet(gt, K_other_metric_value)),
                other_metric_value_pred |-> OrEmpty(other_pred_val),
                other_metric_match |-> m.other,
                irr_in_scope |-> sc.irr_in_scope,
                moic_in_scope |-> sc.moic_in_scope,
                dpi_in_scope |-> sc.dpi_in_scope,
                other_in_scope |-> sc.other_in_scope,
                no_metrics_in_scope |-> sc.no_metrics_in_scope,
                grading_explanation |-> [ metrics_in_denom |-> MetricsInDenom(sc, other_metric_kind),
                                          score_denom |-> sc.score_denom,
                                          score_num |-> sc.score_num ],
                raw_response |-> r.raw_response,
                parsed_data |-> r.data,
                numbers_extracted |-> numbers ] ]

\* The loop body once the other metric's kind is known.
ScoreOther(gt, model_id, r, count, numbers, m, other_metric_kind, ol_str) ==
    BuildRow(gt, model_id, r, count, numbers, m,
             compute_score_from_gt_and_matches(GtRead(gt), m.irr, m.moic, m.dpi, m.other),
             other_metric_kind,
             OtherPred(resolve_other_pred_from_canon(r.canon, DictGet(gt, K_other_metric_label)),
                       DictGet(gt, K_other_metric_value), other_metric_kind, ol_str))

\* The loop body once the match flags m are known.
ScoreMatches(gt, model_id, r, count, numbers, m, ol_str) ==
    ScoreOther(gt, model_id, r, count, numbers, m,
               OtherMetricKind(DictGet(gt, K_other_metric_label), LabelKey(ol_str)), ol_str)

\* Match flags that allow the scale reinterpretation for every metric.
MatchFlagsAllFlex(gt, numbers, tolerance) ==
    [ irr |-> MatchFlag(DictGet(gt, K_net_irr), numbers, tolerance, TRUE),
      moic |-> MatchFlag(DictGet(gt, K_net_moic), numbers, tolerance, TRUE),
      dpi |-> MatchFlag(DictGet(gt, K_net_dpi), numbers, tolerance, TRUE),
      other |-> MatchFlag(DictGet(gt, K_other_metric_value), numbers, tolerance, TRUE) ]

\* The four match flags of the loop body.
MatchFlags(gt, numbers, tolerance) ==
    [ irr |-> MatchFlag(DictGet(gt, K_net_irr), numbers, tolerance, TRUE),
      moic |-> MatchFlag(DictGet(gt, K_net_moic), numbers, tolerance, FALSE),
      dpi |-> MatchFlag(DictGet(gt, K_net_dpi), numbers, tolerance, FALSE),
      other |-> MatchFlag(DictGet(gt, K_other_metric_value), numbers, tolerance, TRUE) ]

\* The loop body once the candidate numbers are known.
ScoreNumbers(gt, model_id, r, tolerance, count, numbers) ==
    ScoreMatches(gt, model_id, r, count, numbers, MatchFlags(gt, numbers, tolerance),
                 LabelText(DictGet(gt, K_other_metric_label)))

\* One pass of the loop body of evaluate_one after run_model returned or
\* raised (r): the row appended and the new value of _FAILURE_LOG_COUNT.
EvaluateModel(gt, model_id, r, tolerance, count) ==
    ScoreNumbers(gt, model_id, r, tolerance, count,
                 extract_all_performance_numbers(r.data)
                 \o extract_numbers_from_raw_response(r.raw_response))

(***************************************************************************)
(* Text of JSON documents, for the inputs of the specifications.           *)
(***************************************************************************)
RECURSIVE Concat(_)
Concat(ss) == IF ss = <<>> THEN <<>> ELSE Head(ss) \o Concat(Tail(ss))

\* "key": value
Member(key, valueText) == Quoted(key) \o <<":", " ">> \o valueText

\* {m1, m2, ...} for member texts ms.
RECURSIVE JoinMembers(_)
JoinMembers(ms) ==
    IF ms = <<>> THEN <<>>
    ELSE IF Len(ms) = 1 THEN ms[1]
    ELSE ms[1] \o <<",", " ">> \o JoinMembers(Tail(ms))

ObjectText(ms) == <<"{">> \o JoinMembers(ms) \o <<"}">>

T_null == <<"n", "u", "l", "l">>
T_15_5 == <<"1", "5", ".", "5">>
T_1_2 == <<"1", ".", "2">>
T_0 == <<"0">>
T_0_155 == <<"0", ".", "1", "5", "5">>
T_neg_4_5 == <<"-", "4", ".", "5">>
L_ytd_whcm == <<"Y", "T", "D", " ", "W", "H", "C", "M">>

(***************************************************************************)
(* Spec: evaluate_one on one document.  The ground truth is given as a     *)
(* dictionary; each model either answers with a text or its call raises.   *)
(***************************************************************************)
\* The models evaluated: the first MaxModels entries of MODELS.
MaxModels == 3

EvalModels == SubSeq(MODELS, 1, MaxModels)

N_15_5 == PyNum(155 * (Unit \div 10))
N_1_2 == PyNum(12 * (Unit \div 10))
N_0 == PyNum(0)
N_neg_0_045 == PyNum(-45 * (Unit \div 1000))

\* Ground truths: each expected value absent or present (0 is present).
GroundTruths ==
    { PyDict(<< <<K_net_irr, i>>, <<K_net_moic, m>>, <<K_net_dpi, d>> >> \o o) :
        i \in {PyNone, N_15_5}, m \in {PyNone, N_1_2}, d \in {PyNone, N_0},
        o \in { <<>>,
                << <<K_other_metric_label, PyStr(L_ytd_whcm)>>,
                   <<K_other_metric_value, N_neg_0_045>> >> } }

\* What a model may answer: an object with irr and moic, prose with the irr
\* as a fraction, an object with a zero irr and the other metric in percent.
Responses ==
    { ObjectText(<<Member(K_net_irr, T_15_5), Member(K_net_moic, T_1_2)>>),
      <<"i", "r", "r", " ">> \o T_0_155,
      ObjectText(<<Member(K_irr, T_0), Member(K_other_metric_label, Quoted(L_ytd_whcm)),
                   Member(K_other_metric_value, T_neg_4_5)>>) }

ErrorMessages == { <<"rate limit exceeded">> }

Init ==
    /\ pc = "start"
    /\ arg \in [gt : GroundTruths, has_text : BOOLEAN]
    /\ res = <<>>
    /\ _FAILURE_LOG_COUNT \in 0.._FAILURE_LOG_MAX

\* extract_text_from_pdf: without text the call raises ValueError.
ExtractText ==
    /\ pc = "start"
    /\ pc' = IF arg.has_text THEN "loop" ELSE "raised"
    /\ UNCHANGED <<arg, res, _FAILURE_LOG_COUNT>>

\* rows.append(row), with the failure count the pass left.
AppendRow(e) ==
    /\ res' = Append(res, e.row)
    /\ _FAILURE_LOG_COUNT' = e.count

\* A loop over the models that a raising model ends without a row.
LoopBodyRaiseAborts(r) ==
    /\ pc = "loop"
    /\ IF ~r.parse_ok /\ r.raw_response = <<>> /\ ~IsNone(r.parse_error)
       THEN pc' = "raised" /\ UNCHANGED <<res, _FAILURE_LOG_COUNT>>
       ELSE /\ AppendRow(EvaluateModel(arg.gt, EvalModels[Len(res) + 1], r, Tolerance,
                                       _FAILURE_LOG_COUNT))
            /\ pc' = IF Len(res) + 1 = Len(EvalModels) THEN "done" ELSE "loop"
    /\ UNCHANGED arg

\* One pass of the loop over the models, run_model having given r; after the
\* last model the rows are returned.
LoopBody(r) ==
    /\ pc = "loop"
    /\ AppendRow(EvaluateModel(arg.gt, EvalModels[Len(res) + 1], r, Tolerance, _FAILURE_LOG_COUNT))
    /\ pc' = IF Len(res) + 1 = Len(EvalModels) THEN "done" ELSE "loop"
    /\ UNCHANGED arg

ModelAnswers == \E content \in Responses : LoopBody(run_model(content))

ModelRaises == \E msg \in ErrorMessages : LoopBody(RunModelRaised(msg))

Next == ExtractText \/ ModelAnswers \/ ModelRaises

Spec == Init /\ [][Next]_vars

\* What the expected value gt_val being absent means for a row's in-scope
\* flag and match flag of that metric.
AbsentRule(gt_val, in_scope, match) == IsNone(gt_val) => (in_scope = FALSE /\ match = 1)

\* What a metric with expected value gt_val and the given match flag adds to
\* score_denom and to score_num.
DenomShare(gt_val) == IF IsNone(gt_val) THEN 0 ELSE 1

NumShare(gt_val, match) == IF IsNone(gt_val) THEN 0 ELSE match

RowAbsentRule(gt, row) ==
    /\ AbsentRule(DictGet(gt, K_net_irr), row.irr_in_scope, row.irr_match)
    /\ AbsentRule(DictGet(gt, K_net_moic), row.moic_in_scope, row.moic_match)
    /\ AbsentRule(DictGet(gt, K_net_dpi), row.dpi_in_scope, row.dpi_match)
    /\ AbsentRule(DictGet(gt, K_other_metric_value), row.other_in_scope, row.other_metric_match)
    /\ row.grading_explanation.score_denom =
          DenomShare(DictGet(gt, K_net_irr)) + DenomShare(DictGet(gt, K_net_moic))
          + DenomShare(DictGet(gt, K_net_dpi)) + DenomShare(DictGet(gt, K_other_metric_value))
    /\ row.grading_explanation.score_num =
          NumShare(DictGet(gt, K_net_irr), row.irr_match)
          + NumShare(DictGet(gt, K_net_moic), row.moic_match)
          + NumShare(DictGet(gt, K_net_dpi), row.dpi_match)
          + NumShare(DictGet(gt, K_other_metric_value), row.other_metric_match)

\* C2: in every row evaluate_one produces, a metric (irr, moic, dpi or the
\* other metric) whose expected value is absent has its in-scope flag false
\* and its match flag 1 whatever the response holds, and adds nothing to
\* score_denom and score_num: the two count the metrics with an expected
\* value only.
C2_AbsentMetricOutOfScope ==
    \A n \in 1..Len(res) : RowAbsentRule(arg.gt, res[n])

\* A row for a document without an expected irr but with an expected moic,
\* the model having answered with an irr.
C2_Witness ==
    /\ Len(res) >= 1
    /\ IsNone(DictGet(arg.gt, K_net_irr))
    /\ ~IsNone(DictGet(arg.gt, K_net_moic))
    /\ res[1].irr_pred = N_15_5
    /\ res[1].irr_match = 1
    /\ res[1].irr_in_scope = FALSE

(***************************************************************************)
(* compute_score_from_gt_and_matches on its own: a call with every ground  *)
(* truth and every combination of match flags.                             *)
(***************************************************************************)
MatchFlagValues == {0, 1}

InitScore ==
    /\ pc = "call"
    /\ arg \in [ gt : GroundTruths, irr_match : MatchFlagValues, moic_match : MatchFlagValues,
                 dpi_match : MatchFlagValues, other_match : MatchFlagValues ]
    /\ res = <<>>
    /\ _FAILURE_LOG_COUNT = 0

ApplyScore ==
    /\ pc = "call"
    /\ res' = compute_score_from_gt_and_matches(GtRead(arg.gt), arg.irr_match, arg.moic_match,
                                                arg.dpi_match, arg.other_match)
    /\ pc' = "returned"
    /\ UNCHANGED <<arg, _FAILURE_LOG_COUNT>>

SpecScore == InitScore /\ [][ApplyScore]_vars

\* The expected values of the ground truth of the call that are not absent.
ScoreInScope == {k \in {"net_irr", "net_moic", "net_dpi", "other_metric_value"} :
                    ~IsNone(GtRead(arg.gt)[k])}

\* The in-scope metrics of the call whose match flag is 1.
ScoreMatched ==
    {k \in ScoreInScope :
        \/ k = "net_irr" /\ arg.irr_match = 1
        \/ k = "net_moic" /\ arg.moic_match = 1
        \/ k = "net_dpi" /\ arg.dpi_match = 1
        \/ k = "other_metric_value" /\ arg.other_match = 1}

\* C1: for a ground truth whose net_irr, net_moic, net_dpi and
\* other_metric_value are all absent, whatever the match flags,
\* compute_score_from_gt_and_matches returns the not-applicable result:
\* overall_score is the empty marker (so neither 0 nor 1),
\* overall_score_is_na = 1, no_metrics_in_scope true and score_denom = 0.
C1_AllAbsentIsNotApplicable ==
    (pc = "returned" /\ ScoreInScope = {}) =>
        /\ res.overall_score = PyStr(<<>>)
        /\ res.overall_score \notin {PyNum(0), PyNum(Unit)}
        /\ res.overall_score_is_na = 1
        /\ res.no_metrics_in_scope = TRUE
        /\ res.score_denom = 0

\* A call without expected values whose match flags are all 1 has returned.
C1_Witness ==
    /\ pc = "returned"
    /\ ScoreInScope = {}
    /\ arg.irr_match = 1 /\ arg.moic_match = 1 /\ arg.dpi_match = 1 /\ arg.other_match = 1

\* C3 as stated: with at least one expected value, score_denom counts the
\* expected values, score_num counts the in-scope metrics whose flag is 1,
\* and overall_score is exactly score_num / score_denom.
C3_ScoreIsExactQuotient ==
    (pc = "returned" /\ ScoreInScope # {}) =>
        /\ res.score_denom = Cardinality(ScoreInScope)
        /\ res.score_num = Cardinality(ScoreMatched)
        /\ res.overall_score.t = "num"
        /\ res.overall_score.v * res.score_denom = res.score_num * Unit

\* C3: with at least one expected value, score_denom counts the expected
\* values, score_num counts the in-scope metrics whose flag is 1, and
\* overall_score is score_num / score_denom rounded to 4 decimal places (the
\* multiple of 0.0001 nearest to the quotient); it is not the N/A result,
\* and a ground truth with only the other metric, unmatched, scores 0 of 1.
C3_ScoreIsRoundedQuotient ==
    (pc = "returned" /\ ScoreInScope # {}) =>
        /\ res.score_denom = Cardinality(ScoreInScope)
        /\ res.score_num = Cardinality(ScoreMatched)
        /\ res.overall_score.t = "num"
        /\ 2 * Abs(res.overall_score.v * res.score_denom - res.score_num * Unit)
              <= res.score_denom
        /\ res.overall_score_is_na = 0
        /\ res.no_metrics_in_scope = FALSE
        /\ (ScoreInScope = {"other_metric_value"} /\ arg.other_match = 0) =>
              (res.score_denom = 1 /\ res.overall_score = PyNum(0))

\* A call with three expected values of which one matched has returned: the
\* quotient 1/3 is no multiple of 0.0001.
C3_Witness ==
    /\ pc = "returned"
    /\ Cardinality(ScoreInScope) = 3
    /\ Cardinality(ScoreMatched) = 1

(***************************************************************************)
(* unit_normalize_pred on its own.  Predicted values are multiples of 0.01, *)
(* so that a division by 100 is exact in units of 1/Unit.                  *)
(***************************************************************************)
UnitPreds ==
    { PyNone, PyNum(0), PyNum(Unit \div 10), PyNum(15 * (Unit \div 10)),
      PyNum(163 * (Unit \div 10)), PyNum(150 * Unit), PyNum(352 * Unit),
      PyNum(-45 * (Unit \div 10)), PyNaN, PyInf(1) }

UnitExpected ==
    { PyNone, PyNum(15 * (Unit \div 10)), PyNum(163 * (Unit \div 1000)),
      PyNum(155 * (Unit \div 10)), PyNum(352 * (Unit \div 100)),
      PyNum(9 * (Unit \div 10)), PyNum(Unit), N_neg_0_045 }

UnitKinds == { K_moic, K_dpi, K_tvpi, K_irr, K_yield }

UnitHints ==
    { PyNone, PyStr(<<>>), PyStr(<<"b", "p", "s">>), PyStr(<<"Y", "i", "e", "l", "d", " ", "(", "B", "P", ")">>),
      PyStr(<<"N", "e", "t", " ", "I", "R", "R">>) }

InitUnit ==
    /\ pc = "call"
    /\ arg \in [ pred_val : UnitPreds, gt_val : UnitExpected, metric_kind : UnitKinds,
                 label_hint : UnitHints ]
    /\ res = <<>>
    /\ _FAILURE_LOG_COUNT = 0

ApplyUnit ==
    /\ pc = "call"
    /\ res' = unit_normalize_pred(arg.pred_val, arg.gt_val, arg.metric_kind, arg.label_hint)
    /\ pc' = "returned"
    /\ UNCHANGED <<arg, _FAILURE_LOG_COUNT>>

SpecUnit == InitUnit /\ [][ApplyUnit]_vars

\* C4 as stated: for metric kind moic, dpi or tvpi, unit_normalize_pred
\* returns the predicted value unchanged, whatever the predicted value, the
\* expected value (absent or not) and the label hint (absent, or holding a
\* basis-point marker).
C4_MultiplesUnchanged ==
    (pc = "returned" /\ arg.metric_kind \in {K_moic, K_dpi, K_tvpi}) =>
        res = arg.pred_val

(***************************************************************************)
(* normalize_value on its own, applied to a scalar and then to its own     *)
(* result.                                                                 *)
(***************************************************************************)
ValueBodies ==
    { <<>>, <<"0">>, T_15_5, <<"1", ",", "2", "3", "4", ".", "5">>, <<"n", "a", "n">>,
      <<"i", "n", "f">>, <<"N", "/", "A">>, <<"n", "o", "n", "e">>, <<"a", "b", "c">> }

ValuePrefixes == { <<>>, <<" ">>, <<"-">> }

ValueSuffixes == { <<>>, <<"%">>, <<"x">>, <<"X", " ">>, <<"MULT">> }

\* The scalars a value of a parsed response or of a ground-truth file may be.
Scalars ==
    { PyNone, PyNum(0), N_15_5, N_neg_0_045, PyNaN, PyInf(1), PyInf(-1), PyBool(0), PyBool(1) }
    \cup { PyStr(p \o b \o s) : p \in ValuePrefixes, b \in ValueBodies, s \in ValueSuffixes }

InitNormalizeValue ==
    /\ pc = "call"
    /\ arg \in Scalars
    /\ res = <<>>
    /\ _FAILURE_LOG_COUNT = 0

\* normalize_value(val), val being the input and then the first result.
ApplyNormalizeValue ==
    /\ pc \in {"call", "once"}
    /\ res' = Append(res, normalize_value(IF pc = "call" THEN arg ELSE res[1]))
    /\ pc' = IF pc = "call" THEN "once" ELSE "twice"
    /\ UNCHANGED <<arg, _FAILURE_LOG_COUNT>>

SpecNormalizeValue == InitNormalizeValue /\ [][ApplyNormalizeValue]_vars

\* C5 as stated: normalize_value is idempotent on every scalar (numbers,
\* strings with or without a percent or multiple suffix, sentinel strings,
\* strings such as "nan" and "inf", absent): normalising the result again
\* gives the result.
C5_NormalizeValueIdempotent ==
    pc = "twice" => res[2] = res[1]

(***************************************************************************)
(* normalize_prediction on its own: on mappings holding a bare key, its    *)
(* net_-prefixed key, a named field and the other metric, and on values    *)
(* that are no mappings.                                                   *)
(***************************************************************************)
\* Stands for a key the mapping does not hold.
Missing == [t |-> "missing", v |-> 0, s |-> <<>>, o |-> <<>>]

\* The pair of key k, unless its value is Missing.
OptPair(k, v) == IF v = Missing THEN <<>> ELSE << <<k, v>> >>

N_10_3 == PyNum(103 * (Unit \div 10))
N_5 == PyNum(5 * Unit)

\* The bare keys with their old-schema keys.
CorePairs ==
    { <<K_irr, K_net_irr>>, <<K_moic, K_net_moic>>, <<K_dpi, K_net_dpi>>,
      <<K_tvpi, K_net_tvpi>> }

BareValues ==
    { Missing, PyNone, PyNum(0), N_10_3, PyStr(T_15_5 \o <<"%">>), PyStr(<<"i", "n", "f">>),
      PyStr(<<"n", "a", "n">>), PyInf(1) }

NetValues == { Missing, PyNone, N_5 }

YieldValues == { Missing, PyStr(<<"a", "b", "c">>) }

OtherValues == { Missing, N_1_2 }

PredictionInputs ==
    { PyNone, PyStr(<<"x">>), PyList(<<N_5>>), N_5, PyDict(<<>>) }
    \cup { PyDict(OptPair(kk[2], n) \o OptPair(kk[1], b) \o OptPair(K_yield, y)
                  \o OptPair(K_other_metric_label, IF o = Missing THEN Missing ELSE PyStr(L_ytd_whcm))
                  \o OptPair(K_other_metric_value, o)) :
             kk \in CorePairs, b \in BareValues, n \in NetValues, y \in YieldValues,
             o \in OtherValues }

InitNormalizePrediction ==
    /\ pc = "call"
    /\ arg \in PredictionInputs
    /\ res = <<>>
    /\ _FAILURE_LOG_COUNT = 0

ApplyNormalizePrediction ==
    /\ pc = "call"
    /\ res' = normalize_prediction(arg)
    /\ pc' = "returned"
    /\ UNCHANGED <<arg, _FAILURE_LOG_COUNT>>

SpecNormalizePrediction == InitNormalizePrediction /\ [][ApplyNormalizePrediction]_vars

\* C6 as stated: whatever the input (a mapping, a value that is no mapping,
\* absent), normalize_prediction returns a mapping whose keys are exactly
\* CANONICAL_KEYS and whose values are each a finite number or absent, never
\* a string, NaN or an infinity.
C6_CanonicalValuesFiniteOrAbsent ==
    pc = "returned" =>
        /\ res.t = "dict"
        /\ [i \in 1..Len(res.o) |-> res.o[i][1]] = CANONICAL_KEYS
        /\ \A i \in 1..Len(res.o) : res.o[i][2].t \in {"num", "none"}

\* C10 as stated: when the mapping holds both a bare key (irr, moic, dpi,
\* tvpi) and its net_-prefixed key with non-null values, the canonical value
\* is the normalised value of the bare key, whatever that value (0 included).
C10_BareKeyWins ==
    pc = "returned" =>
        \A kk \in CorePairs :
            ( /\ arg.t = "dict"
              /\ DictHas(arg, kk[1]) /\ ~IsNone(DictGet(arg, kk[1]))
              /\ DictHas(arg, kk[2]) /\ ~IsNone(DictGet(arg, kk[2])) )
            => DictGet(res, kk[1]) = normalize_value(DictGet(arg, kk[1]))

(***************************************************************************)
(* load_ground_truth on its own, on the text of a single-document file:    *)
(* the explicit format with each expected value missing, null, a number or *)
(* a string, and the existing format with a list of performance lines.     *)
(***************************************************************************)
\* The member of key with the given value text, none for the empty text.
OptMember(key, valueText) == IF valueText = <<>> THEN <<>> ELSE <<Member(key, valueText)>>

T_15_5_pct == Quoted(T_15_5 \o <<"%">>)

T_1_2_x == Quoted(T_1_2 \o <<"x">>)

ExplicitFiles ==
    { ObjectText(OptMember(K_net_irr, i) \o OptMember(K_net_moic, m) \o OptMember(K_net_dpi, d)
                 \o OptMember(K_other_metric_label, IF o = <<>> THEN <<>> ELSE Quoted(L_ytd_whcm))
                 \o OptMember(K_other_metric_value, o)) :
        i \in {<<>>, T_null, T_15_5, T_15_5_pct, T_0},
        m \in {<<>>, T_null, T_1_2, T_1_2_x},
        d \in {<<>>, T_null, T_0},
        o \in {<<>>, Quoted(T_neg_4_5 \o <<"%">>)} }

PerformanceLines ==
    { <<"N", "e", "t", " ", "I", "R", "R", ":", " ", "1", "5", "%">>,
      <<"N", "e", "t", " ", "M", "O", "I", "C", ":", " ", "1", ".", "2", "x">>,
      <<"I", "R", "R", " ", "1", ".", "2", ".", "3", "%">>,
      <<"D", "P", "I", ":", " ", "0", ".", "5", "x">> }

\* ["line", ...]
ListText(lines) ==
    <<"[">> \o JoinMembers([i \in 1..Len(lines) |-> Quoted(lines[i])]) \o <<"]">>

PerformanceFiles ==
    { ObjectText(<<Member(K_investment_performance, ListText(<<a>>))>>) : a \in PerformanceLines }
    \cup { ObjectText(<<Member(K_investment_performance, ListText(<<a, b>>))>>) :
             a \in PerformanceLines, b \in PerformanceLines }

GroundTruthFiles == ExplicitFiles \cup PerformanceFiles \cup { <<"[", "]">>, <<"{">> }

InitLoadGroundTruth ==
    /\ pc = "call"
    /\ arg \in GroundTruthFiles
    /\ res = <<>>
    /\ _FAILURE_LOG_COUNT = 0

\* load_ground_truth returns the dictionary or ends in an exception.
ApplyLoadGroundTruth ==
    /\ pc = "call"
    /\ res' = load_ground_truth(arg)
    /\ pc' = IF res'.raised THEN "raised" ELSE "returned"
    /\ UNCHANGED <<arg, _FAILURE_LOG_COUNT>>

SpecLoadGroundTruth == InitLoadGroundTruth /\ [][ApplyLoadGroundTruth]_vars

\* C7 as stated: whatever the content of a single-document ground-truth
\* file, the net_irr, net_moic and net_dpi that load_ground_truth returns
\* are each a number or absent, never a string.
C7_ExpectedValuesNumberOrAbsent ==
    pc = "returned" =>
        \A k \in {K_net_irr, K_net_moic, K_net_dpi} :
            IsNone(DictGet(res.out, k)) \/ IsNumber(DictGet(res.out, k))

(***************************************************************************)
(* extract_json_from_response on its own, on responses made of at most     *)
(* MaxSegs pieces: an object opened with a first member, a further member *)
(* with an invalid escape, a comma, braces, prose, a code fence, the word  *)
(* json.                                                                   *)
(***************************************************************************)
MaxSegs == 3

Segments ==
    { <<"{">> \o Member(K_net_irr, <<"1", ".", "5">>),
      <<",", " ">> \o Member(<<"a">>, <<"QUOTE", "BSL", "q", "QUOTE">>),
      <<",">>,
      <<"}">>,
      <<"{">>,
      <<"x", " ">>,
      Fence,
      W_json }

\* The texts of at most n segments.
RECURSIVE SegTexts(_)
SegTexts(n) ==
    IF n = 0 THEN {<<>>}
    ELSE SegTexts(n - 1) \cup {p \o s : p \in SegTexts(n - 1), s \in Segments}

InitExtract ==
    /\ pc = "call"
    /\ arg \in SegTexts(MaxSegs)
    /\ res = <<>>
    /\ _FAILURE_LOG_COUNT = 0

ApplyExtract ==
    /\ pc = "call"
    /\ res' = extract_json_from_response(arg)
    /\ pc' = "returned"
    /\ UNCHANGED <<arg, _FAILURE_LOG_COUNT>>

SpecExtract == InitExtract /\ [][ApplyExtract]_vars

\* The number of offsets of s holding the character c.
CountOf(s, c) == Cardinality({i \in 1..Len(s) : s[i] = c})

\* Whether s is a complete brace-balanced object text.
BraceBalanced(s) ==
    /\ s # <<>>
    /\ s[1] = "{"
    /\ s[Len(s)] = "}"
    /\ CountOf(s, "{") = CountOf(s, "}")

\* The mappings that the snippet, or one of its repairs, parses into.
RepairParses(snippet) ==
    { r.data : r \in { _try_parse_json(snippet),
                       _try_parse_json(_repair_invalid_escapes(snippet)),
                       _try_parse_json(FixTrailingCommas(snippet)),
                       _try_parse_json(_repair_invalid_escapes(FixTrailingCommas(snippet))) } }
    \ {PyNone}

\* The object found in the response of the call.
FoundObject == _extract_first_json_object(Strip(arg))

\* C8: extract_json_from_response returns error None only when a complete
\* brace-balanced object was found and parsed, directly or after a repair,
\* into a mapping, and then it returns that mapping; when no object is found
\* or no repair makes the object parseable the error is not None; and on
\* full parse failure (nothing recovered from the text) the mapping returned
\* is empty.
C8_ErrorNoneOnlyOnParsedObject ==
    pc = "returned" =>
        /\ IsNone(res.err) =>
              /\ FoundObject.found
              /\ BraceBalanced(FoundObject.s)
              /\ res.data.t = "dict"
              /\ res.data \in RepairParses(FoundObject.s)
        /\ ~FoundObject.found => ~IsNone(res.err)
        /\ (FoundObject.found /\ RepairParses(FoundObject.s) = {}) => ~IsNone(res.err)
        /\ (~IsNone(res.err) /\ res.err # ErrTruncated) => res.data = PyDict(<<>>)
        /\ res.err = ErrTruncated => (~FoundObject.found /\ res.data.o # <<>>)

\* A response whose object parses only after a repair has been answered
\* with the repaired mapping.
C8_Witness ==
    /\ pc = "returned"
    /\ IsNone(res.err)
    /\ FoundObject.found
    /\ IsNone(_try_parse_json(FoundObject.s).data)
    /\ res.data.o # <<>>

(***************************************************************************)
(* run_model on a response that embeds one well-formed object: prose       *)
(* without braces and fences, the object, more such prose; or the object   *)
(* alone inside a ```json fenced block.                                    *)
(***************************************************************************)
T_10_3 == <<"1", "0", ".", "3">>

\* Further members of the object: none, a nested object, a string holding a
\* code fence (and no brace).
ExtraMembers ==
    { <<>>,
      <<Member(<<"m", "e", "t", "a">>, ObjectText(<<Member(<<"a">>, <<"1">>)>>))>>,
      <<Member(<<"n", "o", "t", "e">>, Quoted(Fence))>> }

EmbeddedObjects ==
    { ObjectText(OptMember(K_irr, i) \o OptMember(K_moic, m) \o e) :
        i \in {<<>>, T_10_3, T_0}, m \in {<<>>, T_1_2}, e \in ExtraMembers }

ProseBefore ==
    { <<>>, <<"x", " ">>,
      <<"H", "e", "r", "e", " ", "i", "s", " ", "t", "h", "e", " ", "J", "S", "O", "N", ":", "NL">> }

ProseAfter == { <<>>, <<" ", "y">> }

EmbeddedResponses ==
    [ obj : EmbeddedObjects, pre : ProseBefore, post : ProseAfter, fenced : {FALSE} ]
    \cup [ obj : EmbeddedObjects, pre : {<<>>}, post : {<<>>}, fenced : {TRUE} ]

\* The text of the response r.
ResponseText(r) ==
    IF r.fenced THEN FenceJson \o <<"NL">> \o r.obj \o <<"NL">> \o Fence
    ELSE r.pre \o r.obj \o r.post

InitEmbedded ==
    /\ pc = "call"
    /\ arg \in EmbeddedResponses
    /\ res = <<>>
    /\ _FAILURE_LOG_COUNT = 0

ApplyRunModel ==
    /\ pc = "call"
    /\ res' = run_model(ResponseText(arg))
    /\ pc' = "returned"
    /\ UNCHANGED <<arg, _FAILURE_LOG_COUNT>>

SpecEmbedded == InitEmbedded /\ [][ApplyRunModel]_vars

\* The object the response embeds, as json reads its text.
EmbeddedObject == JsonLoads(arg.obj).val

\* C9 as stated: from prose, one well-formed object and more prose, or from
\* the object alone in a ```json block, extract_json_from_response returns
\* exactly the object with error None, and normalize_prediction of it
\* yields the object's irr and moic values.
C9_EmbeddedObjectRecovered ==
    pc = "returned" =>
        /\ IsNone(res.parse_error)
        /\ res.data = EmbeddedObject
        /\ \A k \in {K_irr, K_moic} :
              DictHas(EmbeddedObject, k) => DictGet(res.canon, k) = DictGet(EmbeddedObject, k)

(***************************************************************************)
(* Document Matcher.                                                       *)
(***************************************************************************)
\* The characters for which str.isalnum() holds.
AlnumChars == {UpperSeq[i] : i \in 1..26} \cup {LowerSeq[i] : i \in 1..26} \cup Digits

\* c if c.isalnum() or c.isspace() else " ", for each c of low
BlankNonAlnum(low) ==
    [i \in 1..Len(low) |-> IF low[i] \in AlnumChars \cup Whitespace THEN low[i] ELSE " "]

\* _normalize_for_match(s)
_normalize_for_match(s) == CollapseWs(BlankNonAlnum(Lower(s)))

\* The offsets where a word of t starts, t being joined with single spaces.
WordStarts(t) == {i \in 1..Len(t) : t[i] # " " /\ (i = 1 \/ t[i - 1] = " ")}

\* [w for w in key_norm.split() if len(w) >= 3], as a set
SignificantWords(key_norm) ==
    {w \in {SubSeq(key_norm, i, FirstIn(key_norm, i, {" "}) - 1) : i \in WordStarts(key_norm)} :
        Len(w) >= 3}

\* excel_words and all(w in pdf_norm for w in excel_words)
WordMatch(key_norm, pdf_norm) ==
    /\ SignificantWords(key_norm) # {}
    /\ \A w \in SignificantWords(key_norm) : Contains(pdf_norm, w)

\* a == pdf_name_norm or a == pdf_stem_norm
NormEqual(a, pdf_name, pdf_stem) ==
    a = _normalize_for_match(pdf_name) \/ a = _normalize_for_match(pdf_stem)

\* a in pdf_lower or pdf_lower in a
EitherContains(a, pdf_lower) == Contains(pdf_lower, a) \/ Contains(a, pdf_lower)

\* The tests of the loop body after the normalised comparisons.
LooseMatch(pdf_stem, excel_key, excel_stem) ==
    /\ Len(excel_stem) >= 3
    /\ \/ EitherContains(Lower(excel_stem), Lower(pdf_stem))
       \/ EitherContains(Lower(excel_key), Lower(pdf_stem))
       \/ WordMatch(_normalize_for_match(excel_key), _normalize_for_match(pdf_stem))

\* One pass of the loop over gtpdf_values: the pass returns the entry's metrics.
EntryReturns(pdf_name, pdf_stem, excel_key, excel_stem) ==
    \/ NormEqual(_normalize_for_match(excel_key), pdf_name, pdf_stem)
    \/ NormEqual(_normalize_for_match(excel_stem), pdf_name, pdf_stem)
    \/ LooseMatch(pdf_stem, excel_key, excel_stem)

\* The loop over gtpdf_values: the metrics of the first entry whose pass
\* returns, None after the last entry.
MatchLoop(pdf_name, pdf_stem, gtpdf_values) ==
    IF \E i \in 1..Len(gtpdf_values) :
            EntryReturns(pdf_name, pdf_stem, gtpdf_values[i][1], gtpdf_values[i][2])
    THEN gtpdf_values[LeastOf({i \in 1..Len(gtpdf_values) :
            EntryReturns(pdf_name, pdf_stem, gtpdf_values[i][1], gtpdf_values[i][2])})][3]
    ELSE PyNone

\* The return of _match_pdf_to_ground_truth, gt being what the lookup gave.
MatchAfterLookup(gt, pdf_name, pdf_stem, gtpdf_values) ==
    IF ~IsNone(gt) THEN gt ELSE MatchLoop(pdf_name, pdf_stem, gtpdf_values)

\* _match_pdf_to_ground_truth(pdf_name, pdf_stem, gt_lookup, gtpdf_values)
_match_pdf_to_ground_truth(pdf_name, pdf_stem, gt_lookup, gtpdf_values) ==
    MatchAfterLookup(PyOr(DictGet(gt_lookup, pdf_name), DictGet(gt_lookup, pdf_stem)),
                     pdf_name, pdf_stem, gtpdf_values)

\* The greatest offset of s holding c, 0 if none.
LastOf(s, c) ==
    IF \E j \in 1..Len(s) : s[j] = c
    THEN CHOOSE j \in 1..Len(s) : s[j] = c /\ \A k \in (j + 1)..Len(s) : s[k] # c
    ELSE 0

\* Path(key).name for a key that does not end with a separator.
PathName(key) == SubSeq(key, LastOf(key, "/") + 1, Len(key))

\* The stem of a file name, dot being the offset of its last dot: the suffix
\* is cut when the dot is neither the first nor the last character.
StemOfName(name, dot) ==
    IF 1 < dot /\ dot < Len(name) THEN SubSeq(name, 1, dot - 1) ELSE name

\* Path(key).stem
PathStem(key) == StemOfName(PathName(key), LastOf(PathName(key), "."))

\* Path(key).stem if "." in key else key
StemIfDotted(key) == IF \E j \in 1..Len(key) : key[j] = "." THEN PathStem(key) ELSE key

\* What a ground-truth loader has built so far.
NoDocuments == [result |-> <<>>, gtpdf_values |-> <<>>, ordered_metrics |-> <<>>]

\* result[key] = metrics, then result[stem] = metrics when the stem differs.
SetKeyAndStem(result, key, stem, metrics) ==
    IF stem # key THEN DictSet(DictSet(result, key, metrics), stem, metrics)
    ELSE DictSet(result, key, metrics)

\* The loaders' registration of a document under a non-empty key:
\* result[key], result[stem] and gtpdf_values.append((key, stem, metrics)).
RegisterKey(acc, key, stem, metrics) ==
    [ result |-> SetKeyAndStem(acc.result, key, stem, metrics),
      gtpdf_values |-> Append(acc.gtpdf_values, <<key, stem, metrics>>),
      ordered_metrics |-> acc.ordered_metrics ]

\* ordered_metrics.append(metrics)
AppendOrdered(acc, metrics) ==
    [ result |-> acc.result, gtpdf_values |-> acc.gtpdf_values,
      ordered_metrics |-> Append(acc.ordered_metrics, metrics) ]

\* The loaders' loop over documents with a non-empty key, docs being the
\* <<key, metrics>> pairs in source order, from the i-th on.
RECURSIVE LoadDocumentsFrom(_, _, _)
LoadDocumentsFrom(docs, i, acc) ==
    IF i > Len(docs) THEN acc
    ELSE LoadDocumentsFrom(docs, i + 1,
            RegisterKey(AppendOrdered(acc, docs[i][2]), docs[i][1],
                        StemIfDotted(docs[i][1]), docs[i][2]))

LoadDocuments(docs) == LoadDocumentsFrom(docs, 1, NoDocuments)

(***************************************************************************)
(* _match_pdf_to_ground_truth on its own: one PDF of the folder against    *)
(* the ground truth a loader built from up to MaxEntries documents.        *)
(***************************************************************************)
MaxEntries == 3

PdfNames == { <<"F", "u", "n", "d", " ", "A", ".", "p", "d", "f">>,
              <<"O", "t", "h", "e", "r", ".", "p", "d", "f">> }

\* Document names of the ground truth: for the PDF "Fund A.pdf", its name,
\* its stem, its stem in other case and punctuation, a part of its stem, its
\* words in another order, and an unrelated name.
MatchKeys ==
    << <<"F", "u", "n", "d", " ", "A", ".", "p", "d", "f">>,
       <<"F", "u", "n", "d", " ", "A">>,
       <<"F", "U", "N", "D", "-", "A">>,
       <<"F", "u", "n", "d">>,
       <<"A", ",", " ", "F", "u", "n", "d">>,
       <<"O", "t", "h", "e", "r">> >>

\* The metrics of the document named MatchKeys[k] in the list at place n.
MetricsOf(k, n) ==
    PyDict(<< <<K_net_irr, PyNum(k * Unit)>>, <<K_net_moic, PyNum(n * Unit)>>,
              <<K_net_dpi, PyNone>> >>)

MatchDocs(ks) == [n \in 1..Len(ks) |-> <<MatchKeys[ks[n]], MetricsOf(ks[n], n)>>]

KeyLists == UNION { [1..n -> 1..Len(MatchKeys)] : n \in 0..MaxEntries }

InitMatch ==
    /\ pc = "call"
    /\ arg \in [pdf_name : PdfNames, keys : KeyLists]
    /\ res = <<>>
    /\ _FAILURE_LOG_COUNT = 0

MatchLoaded(pdf_name, loaded) ==
    _match_pdf_to_ground_truth(pdf_name, PathStem(pdf_name), PyDict(loaded.result),
                               loaded.gtpdf_values)

ApplyMatch ==
    /\ pc = "call"
    /\ res' = MatchLoaded(arg.pdf_name, LoadDocuments(MatchDocs(arg.keys)))
    /\ pc' = "returned"
    /\ UNCHANGED <<arg, _FAILURE_LOG_COUNT>>

SpecMatch == InitMatch /\ [][ApplyMatch]_vars

\* The ground-truth list of the call.
MatchEntries == LoadDocuments(MatchDocs(arg.keys)).gtpdf_values

\* The rule by which the entry e matches the PDF of the call: 1 exact
\* lookup, 2 normalised equality, 3 substring containment, 4 token overlap,
\* 5 when no rule matches.
RuleOf(e, pdf_name, pdf_stem) ==
    CASE e[1] \in {pdf_name, pdf_stem} \/ e[2] \in {pdf_name, pdf_stem} -> 1
      [] \/ NormEqual(_normalize_for_match(e[1]), pdf_name, pdf_stem)
         \/ NormEqual(_normalize_for_match(e[2]), pdf_name, pdf_stem) -> 2
      [] /\ Len(e[2]) >= 3
         /\ \/ EitherContains(Lower(e[2]), Lower(pdf_stem))
            \/ EitherContains(Lower(e[1]), Lower(pdf_stem)) -> 3
      [] /\ Len(e[2]) >= 3
         /\ WordMatch(_normalize_for_match(e[1]), _normalize_for_match(pdf_stem)) -> 4
      [] OTHER -> 5

EntryRule(n) == RuleOf(MatchEntries[n], arg.pdf_name, PathStem(arg.pdf_name))

\* The places of the list whose entry matches by the best rule any entry has.
BestPlaces ==
    {n \in 1..Len(MatchEntries) :
        EntryRule(n) < 5 /\ \A m \in 1..Len(MatchEntries) : EntryRule(n) <= EntryRule(m)}

\* C11 as stated: the rules apply in strict priority over the whole list:
\* the entry returned is the first in source order among those matching by
\* the highest-priority rule that matches any entry, and the result is none
\* when no rule matches.
C11_HigherRuleWins ==
    pc = "returned" =>
        IF BestPlaces = {} THEN res = PyNone
        ELSE res = MatchEntries[LeastOf(BestPlaces)][3]

(***************************************************************************)
(* The match flags of the loop body on their own: every ground truth       *)
(* against every candidate pool of up to MaxPool numbers.                  *)
(***************************************************************************)
MaxPool == 2

N_0_5 == PyNum(5 * (Unit \div 10))

\* Ground truths: irr 15.5, moic 1.2 or 15.5, dpi 0.5, each possibly absent.
PoolGroundTruths ==
    { PyDict(<< <<K_net_irr, i>>, <<K_net_moic, m>>, <<K_net_dpi, d>> >>) :
        i \in {PyNone, N_15_5}, m \in {PyNone, N_1_2, N_15_5}, d \in {PyNone, N_0_5} }

\* Candidate numbers: the expected values at their own scale (within and
\* beyond the tolerance), 100 times smaller, 100 times larger, and the
\* non-finite numbers normalize_value lets through.
PoolNumbers ==
    { PyNum(155 * (Unit \div 1000)), PyNum(15505 * (Unit \div 1000)),
      PyNum(1552 * (Unit \div 100)), PyNum(1550 * Unit),
      N_1_2, PyNum(120 * Unit), PyNum(12 * (Unit \div 1000)),
      N_0_5, PyNum(50 * Unit), PyNum(5 * (Unit \div 1000)),
      N_0, PyNaN, PyInf(1) }

Pools == UNION { [1..n -> PoolNumbers] : n \in 0..MaxPool }

InitPool ==
    /\ pc = "call"
    /\ arg \in [gt : PoolGroundTruths, numbers : Pools]
    /\ res = <<>>
    /\ _FAILURE_LOG_COUNT = 0

ApplyMatchFlags ==
    /\ pc = "call"
    /\ res' = MatchFlags(arg.gt, arg.numbers, Tolerance)
    /\ pc' = "returned"
    /\ UNCHANGED <<arg, _FAILURE_LOG_COUNT>>

SpecPool == InitPool /\ [][ApplyMatchFlags]_vars

\* Some finite number n of the pool of the call has |up * g - down * n| <=
\* up * t: |g - n| <= t for (1, 1), |g - 100n| <= t for (1, 100) and
\* |g - n/100| <= t for (100, 1).
PoolHolds(g, up, down) ==
    \E i \in 1..Len(arg.numbers) :
        /\ arg.numbers[i].t = "num"
        /\ Abs(up * g.v - down * arg.numbers[i].v) <= up * Tolerance

\* C12: with tolerance t an in-scope irr matches iff some n of the pool has
\* |gt - n| <= t or |gt - 100n| <= t or |gt - n/100| <= t; an in-scope moic
\* or dpi matches iff some n of the pool has |gt - n| <= t, with no
\* reinterpretation by a factor of 100.
C12_ScaleFlexOnlyForIrr ==
    pc = "returned" =>
        /\ ~IsNone(DictGet(arg.gt, K_net_irr)) =>
              (res.irr = 1 <=> \/ PoolHolds(DictGet(arg.gt, K_net_irr), 1, 1)
                               \/ PoolHolds(DictGet(arg.gt, K_net_irr), 1, 100)
                               \/ PoolHolds(DictGet(arg.gt, K_net_irr), 100, 1))
        /\ ~IsNone(DictGet(arg.gt, K_net_moic)) =>
              (res.moic = 1 <=> PoolHolds(DictGet(arg.gt, K_net_moic), 1, 1))
        /\ ~IsNone(DictGet(arg.gt, K_net_dpi)) =>
              (res.dpi = 1 <=> PoolHolds(DictGet(arg.gt, K_net_dpi), 1, 1))
        /\ {res.irr, res.moic, res.dpi} \subseteq {0, 1}

\* The pool [0.155] against an expected 15.5 for irr and for moic and an
\* expected 0.5 for dpi: irr matched, moic and dpi not.
C12_Witness ==
    /\ pc = "returned"
    /\ arg.numbers = <<PyNum(155 * (Unit \div 1000))>>
    /\ DictGet(arg.gt, K_net_irr) = N_15_5
    /\ DictGet(arg.gt, K_net_moic) = N_15_5
    /\ DictGet(arg.gt, K_net_dpi) = N_0_5
    /\ res.irr = 1 /\ res.moic = 0 /\ res.dpi = 0

(***************************************************************************)
(* evaluate_one: a model whose invocation raises.                          *)
(***************************************************************************)
\* The row was appended by the except branch: its parse_error is the text of
\* an exception.
RowOfRaise(row) == row.parse_error \in {PyStr(msg) : msg \in ErrorMessages}

\* The expected values of gt that are present, by the row field of their match.
RowInScope(gt) ==
    {k \in {"irr_match", "moic_match", "dpi_match", "other_metric_match"} :
        ~IsNone(DictGet(gt, CASE k = "irr_match" -> K_net_irr
                              [] k = "moic_match" -> K_net_moic
                              [] k = "dpi_match" -> K_net_dpi
                              [] OTHER -> K_other_metric_value))}

\* What C13 says of the row of a model that raised.
RaiseRowRule(gt, row) ==
    /\ row.parse_ok = FALSE
    /\ row.irr_pred = PyStr(<<>>) /\ row.moic_pred = PyStr(<<>>) /\ row.dpi_pred = PyStr(<<>>)
    /\ row.other_metric_value_pred = PyStr(<<>>)
    /\ row.numbers_extracted = <<>>
    /\ row.parsed_data = PyDict(<<>>)
    /\ \A k \in RowInScope(gt) : row[k] = 0
    /\ IF RowInScope(gt) = {}
       THEN row.overall_score = PyStr(<<>>) /\ row.overall_score_is_na = 1
       ELSE row.overall_score = PyNum(0) /\ row.overall_score_is_na = 0

\* C13: when the invocation of a model raises, a row is still appended for
\* that model, with every prediction absent, parse_ok false and the
\* exception text as parse_error, an empty candidate pool, match 0 for every
\* in-scope metric and score 0 (N/A when nothing is in scope); the call is
\* not aborted and the remaining models are invoked and scored in order.
C13_RaiseIsIsolated ==
    /\ \A n \in 1..Len(res) :
          /\ res[n].model_id = EvalModels[n]
          /\ RowOfRaise(res[n]) => RaiseRowRule(arg.gt, res[n])
    /\ pc = "raised" => ~arg.has_text /\ res = <<>>
    /\ pc = "loop" => Len(res) < Len(EvalModels)
    /\ pc = "done" => Len(res) = Len(EvalModels)

\* The first model raised with expected values in scope; the call went on
\* to the last model, and a later model answered and matched.
C13_Witness ==
    /\ pc = "done"
    /\ RowOfRaise(res[1])
    /\ RowInScope(arg.gt) # {}
    /\ \E n \in 2..Len(res) : res[n].parse_ok /\ res[n].irr_match = 1 /\ res[n].irr_in_scope

(***************************************************************************)
(* Batch Runner: run_on_pdf_dir_with_ground_truth.                         *)
(***************************************************************************)
\* The order of characters in Python's comparison of strings, for the
\* characters of file names: punctuation, digits, capitals, small letters.
CharOrder ==
    <<" ", "(", ")", ",", "-", ".">> \o DigitSeq \o UpperSeq \o <<"_">> \o LowerSeq

CharCode(c) == CHOOSE i \in 1..Len(CharOrder) : CharOrder[i] = c

\* The first offset where a and b differ, one past the shorter if none.
FirstDifference(a, b) ==
    LeastOf({i \in 1..(Len(a) + 1) : i > Len(a) \/ i > Len(b) \/ a[i] # b[i]})

\* a < b for two strings.
StrLess(a, b) ==
    a # b /\ (FirstDifference(a, b) > Len(a)
              \/ (FirstDifference(a, b) <= Len(b)
                  /\ CharCode(a[FirstDifference(a, b)]) < CharCode(b[FirstDifference(a, b)])))

\* sorted(candidates, key=lambda x: x[0].name): a stable sort, each candidate
\* going to the place given by the candidates before it in the order.
SortPlace(cands, i) ==
    1 + Cardinality({j \in 1..Len(cands) :
                        \/ StrLess(cands[j][1], cands[i][1])
                        \/ (j < i /\ cands[j][1] = cands[i][1])})

SortedByName(cands) ==
    [p \in 1..Len(cands) |-> cands[CHOOSE i \in 1..Len(cands) : SortPlace(cands, i) = p]]

\* match_by_order: the i-th PDF with the i-th metrics, for the shorter length.
PairByOrder(pdf_files, ordered_metrics) ==
    [i \in 1..(IF Len(pdf_files) < Len(ordered_metrics) THEN Len(pdf_files)
               ELSE Len(ordered_metrics)) |-> <<pdf_files[i], ordered_metrics[i]>>]

\* The PDFs for which _match_pdf_to_ground_truth gives a ground truth, with it.
MatchedCandidates(pdf_files, loaded) ==
    SelectSeq([i \in 1..Len(pdf_files) |-> <<pdf_files[i], MatchLoaded(pdf_files[i], loaded)>>],
              LAMBDA c : ~IsNone(c[2]))

\* {s.strip() for s in test_case_ids if s and str(s).strip()}
AllowedIds(test_case_ids) ==
    {Strip(test_case_ids[i]) : i \in {j \in 1..Len(test_case_ids) : Strip(test_case_ids[j]) # <<>>}}

\* The filter by test_case_ids, which an empty or blank list leaves off.
FilterByIds(cands, test_case_ids) ==
    IF AllowedIds(test_case_ids) = {} THEN cands
    ELSE SelectSeq(cands, LAMBDA c : PathStem(c[1]) \in AllowedIds(test_case_ids)
                                     \/ c[1] \in AllowedIds(test_case_ids))

\* The candidates before sampling and sorting.
InitialCandidates(a) ==
    FilterByIds(IF a.match_by_order THEN PairByOrder(a.pdf_files, a.loaded.ordered_metrics)
                ELSE MatchedCandidates(a.pdf_files, a.loaded),
                a.test_case_ids)

\* random.sample(cands, k): the sequences of k candidates at distinct places.
SamplesOf(cands, k) ==
    { [i \in 1..k |-> cands[f[i]]] :
        f \in {g \in [1..k -> 1..Len(cands)] : \A i, j \in 1..k : i # j => g[i] # g[j]} }

\* The candidate lists the loop may run over: a random sample when sample is
\* positive, else the candidates sorted by name unless matched by order.
FinalCandidates(a, cands) ==
    IF a.sample > 0
    THEN SamplesOf(cands, IF a.sample < Len(cands) THEN a.sample ELSE Len(cands))
    ELSE IF ~a.match_by_order THEN {SortedByName(cands)}
    ELSE {cands}

\* The row of evaluate_one with the test_case_id of the call.
WithTestCase(row, test_case_id) ==
    [f \in DOMAIN row \cup {"test_case_id"} |->
        IF f = "test_case_id" THEN test_case_id ELSE row[f]]

\* The loop of evaluate_one over the models from the n-th on, rs[n] being
\* what run_model gave or raised for the n-th model: the rows and the new
\* value of _FAILURE_LOG_COUNT.
RECURSIVE EvaluateRows(_, _, _, _, _, _)
AfterModel(gt, test_case_id, rs, n, rows, e) ==
    EvaluateRows(gt, test_case_id, rs, n + 1, Append(rows, WithTestCase(e.row, test_case_id)),
                 e.count)

EvaluateRows(gt, test_case_id, rs, n, rows, count) ==
    IF n > Len(EvalModels) THEN [rows |-> rows, count |-> count]
    ELSE AfterModel(gt, test_case_id, rs, n, rows,
                    EvaluateModel(gt, EvalModels[n], rs[n], Tolerance, count))

\* evaluate_one(pdf, ground_truth_dict=gt, test_case_id=stem) for a document
\* with text.
evaluate_one(gt, test_case_id, rs, count) == EvaluateRows(gt, test_case_id, rs, 1, <<>>, count)

\* re.sub(r"[^\w\s]", "", low)
DropPunctuation(low) == SelectSeq(low, LAMBDA c : c \in WordChars \cup Whitespace)

\* re.sub(r"\s+", "_", s): each run of whitespace becomes one underscore.
UnderscoreRuns(s) ==
    ReplaceChar(ReplaceChar(ReplaceChar(ReplaceChar(
        AtOffsets(s, {i \in 1..Len(s) :
                        ~(s[i] \in Whitespace /\ i > 1 /\ s[i - 1] \in Whitespace)}),
        "NL", "_"), "TAB", "_"), "CR", "_"), " ", "_")

K_other == <<"o", "t", "h", "e", "r">>

\* s or "other"
OrOther(s) == IF s = <<>> THEN K_other ELSE s

\* _sanitize_metric_column_name(label)
_sanitize_metric_column_name(label) ==
    IF ~Truthy(label) \/ Strip(StrOf(label)) = <<>> THEN K_other
    ELSE OrOther(RStrip(LStrip(UnderscoreRuns(DropPunctuation(Lower(StrOf(label)))), {"_"}),
                        {"_"}))

\* other_metric_names of write_csv, as a set: the column names of the labels
\* of the rows.  The order of the columns in the file is left out.
OtherMetricNames(rows) ==
    { _sanitize_metric_column_name(rows[i].other_metric_label_gt) :
        i \in {j \in 1..Len(rows) :
                 /\ Truthy(rows[j].other_metric_label_gt)
                 /\ Strip(StrOf(rows[j].other_metric_label_gt)) # <<>>} }

\* The row's other metric goes to the columns named col.
FillsColumn(row, names, col) ==
    /\ Truthy(row.other_metric_label_gt)
    /\ _sanitize_metric_column_name(row.other_metric_label_gt) \in names
    /\ _sanitize_metric_column_name(row.other_metric_label_gt) = col

\* A cell of the columns m_gt, m_pred, m_match of flatten_row: own is the
\* row's value for a fixed metric and "" for a metric named by a label; the
\* row's other metric overwrites the columns of its name.
MetricCell(row, names, col, own, other) == IF FillsColumn(row, names, col) THEN other ELSE own

Blank == PyStr(<<>>)

\* flatten_row(row): the line of the file for the row.  A cell holds the
\* value whose text the writer prints.
flatten_row(row, names) ==
    [ test_case_id |-> row.test_case_id, model_id |-> row.model_id,
      parse_ok |-> row.parse_ok, parse_error |-> row.parse_error,
      overall_score |-> row.overall_score, overall_score_is_na |-> row.overall_score_is_na,
      no_metrics_in_scope |-> row.no_metrics_in_scope,
      irr_in_scope |-> row.irr_in_scope, moic_in_scope |-> row.moic_in_scope,
      dpi_in_scope |-> row.dpi_in_scope, other_in_scope |-> row.other_in_scope,
      grading_explanation |-> row.grading_explanation,
      raw_response_truncated |->
          SubSeq(row.raw_response, 1,
                 IF Len(row.raw_response) < 2000 THEN Len(row.raw_response) ELSE 2000),
      irr_gt |-> MetricCell(row, names, K_irr, row.irr_gt, row.other_metric_value_gt),
      irr_pred |-> MetricCell(row, names, K_irr, row.irr_pred, row.other_metric_value_pred),
      irr_match |-> MetricCell(row, names, K_irr, row.irr_match, row.other_metric_match),
      moic_gt |-> MetricCell(row, names, K_moic, row.moic_gt, row.other_metric_value_gt),
      moic_pred |-> MetricCell(row, names, K_moic, row.moic_pred, row.other_metric_value_pred),
      moic_match |-> MetricCell(row, names, K_moic, row.moic_match, row.other_metric_match),
      dpi_gt |-> MetricCell(row, names, K_dpi, row.dpi_gt, row.other_metric_value_gt),
      dpi_pred |-> MetricCell(row, names, K_dpi, row.dpi_pred, row.other_metric_value_pred),
      dpi_match |-> MetricCell(row, names, K_dpi, row.dpi_match, row.other_metric_match),
      other_gt |-> [m \in names |->
                      MetricCell(row, names, m, Blank, row.other_metric_value_gt)],
      other_pred |-> [m \in names |->
                        MetricCell(row, names, m, Blank, row.other_metric_value_pred)],
      other_match |-> [m \in names |->
                         MetricCell(row, names, m, Blank, row.other_metric_match)] ]

\* The file write_csv(rows, output_path) leaves: a line for every row.
\* Without rows nothing is written and the file stays as it was.
WrittenCsv(rows, names) == [i \in 1..Len(rows) |-> flatten_row(rows[i], names)]

write_csv(rows, file) == IF rows = <<>> THEN file ELSE WrittenCsv(rows, OtherMetricNames(rows))

\* 1 if the row's flag is true else 0
Flag(b) == IF b THEN 1 ELSE 0

\* The entry of write_trace_json for the row r.
TraceEntry(r) ==
    [ test_case_id |-> r.test_case_id, model_id |-> r.model_id,
      parse_ok |-> r.parse_ok, parse_error |-> PyOr(r.parse_error, Blank),
      overall_score |-> r.overall_score, overall_score_is_na |-> r.overall_score_is_na,
      score_denom |-> Flag(r.irr_in_scope) + Flag(r.moic_in_scope) + Flag(r.dpi_in_scope)
                      + Flag(r.other_in_scope),
      no_metrics_in_scope |-> r.no_metrics_in_scope,
      grading_explanation |-> r.grading_explanation,
      raw_response |-> r.raw_response,
      parsed_data |-> PyOr(r.parsed_data, PyDict(<<>>)),
      numbers_extracted |-> r.numbers_extracted,
      irr_gt |-> r.irr_gt, irr_pred |-> r.irr_pred, irr_match |-> r.irr_match,
      moic_gt |-> r.moic_gt, moic_pred |-> r.moic_pred, moic_match |-> r.moic_match,
      dpi_gt |-> r.dpi_gt, dpi_pred |-> r.dpi_pred, dpi_match |-> r.dpi_match,
      other_metric_label_gt |-> r.other_metric_label_gt,
      other_metric_value_gt |-> r.other_metric_value_gt,
      other_metric_value_pred |-> r.other_metric_value_pred,
      other_metric_match |-> r.other_metric_match ]

\* The file write_trace_json(rows, trace_path) leaves.
write_trace_json(rows, file) ==
    IF rows = <<>> THEN file ELSE [i \in 1..Len(rows) |-> TraceEntry(rows[i])]

\* parse_ok_count
ParseOkCount(rows) == Cardinality({i \in 1..Len(rows) : rows[i].parse_ok})

\* A test that also fails a run whose rate equals the threshold.
RateAtOrBelowThreshold(rows, threshold) ==
    ~IsNone(threshold) /\ ParseOkCount(rows) * Unit <= threshold.v * Len(rows)

\* fail_fast_parse_rate is not None and parse_ok_rate < fail_fast_parse_rate
RateBelowThreshold(rows, threshold) ==
    ~IsNone(threshold) /\ ParseOkCount(rows) * Unit < threshold.v * Len(rows)

(***************************************************************************)
(* SpecRun: one run over a folder of two PDFs.  res holds the candidates,  *)
(* the place of the next one, all_rows and the two files.                  *)
(***************************************************************************)
Pdf_Fund_A == <<"F", "u", "n", "d", " ", "A", ".", "p", "d", "f">>

Pdf_Other == <<"O", "t", "h", "e", "r", ".", "p", "d", "f">>

\* The ground truth a loader gave: a document with irr and moic, and one
\* with a labelled metric only, listed under its name without suffix.
RunLoaded ==
    LoadDocuments(<< <<Pdf_Fund_A,
                       PyDict(<< <<K_net_irr, N_15_5>>, <<K_net_moic, N_1_2>>,
                                 <<K_net_dpi, PyNone>> >>)>>,
                     <<PathStem(Pdf_Other),
                       PyDict(<< <<K_net_irr, PyNone>>, <<K_net_moic, PyNone>>,
                                 <<K_net_dpi, PyNone>>,
                                 <<K_other_metric_label, PyStr(L_ytd_whcm)>>,
                                 <<K_other_metric_value, N_neg_0_045>> >>)>> >>)

\* match_by_order, sample (0 for None) and test_case_ids (empty for None).
RunOptions ==
    { [match_by_order |-> FALSE, sample |-> 0, test_case_ids |-> <<>>],
      [match_by_order |-> TRUE, sample |-> 0, test_case_ids |-> <<>>],
      [match_by_order |-> FALSE, sample |-> 1, test_case_ids |-> <<>>],
      [match_by_order |-> FALSE, sample |-> 0, test_case_ids |-> <<PathStem(Pdf_Other)>>] }

\* fail_fast_parse_rate: None, the default 0.98, and 0.5.
Thresholds == {PyNone, PyNum(98 * (Unit \div 100)), PyNum(5 * (Unit \div 10))}

\* What a model answers in a run: an object, or prose without an object.
RunAnswers ==
    << ObjectText(<<Member(K_net_irr, T_15_5), Member(K_net_moic, T_1_2)>>),
       <<"i", "r", "r", " ">> \o T_0_155 >>

\* What run_model gives evaluate_one for a model: the parse of either answer,
\* or the exception the invocation raised.
RunResults ==
    << run_model(RunAnswers[1]), run_model(RunAnswers[2]),
       RunModelRaised(<<"rate limit exceeded">>) >>

\* Which result each model gives for a document: all models giving the same
\* answer, or one model giving the second answer or failing beside first
\* answers.
RunOutcomes ==
    { [n \in 1..Len(EvalModels) |-> a] : a \in 1..Len(RunAnswers) }
      \cup { [n \in 1..Len(EvalModels) |-> IF n = k THEN b ELSE 1] :
                k \in 1..Len(EvalModels), b \in 2..Len(RunResults) }

InitRun ==
    /\ pc = "start"
    /\ \E o \in RunOptions, th \in Thresholds, dir \in BOOLEAN :
          arg = [ is_dir |-> dir, pdf_files |-> <<Pdf_Fund_A, Pdf_Other>>,
                  loaded |-> RunLoaded, match_by_order |-> o.match_by_order,
                  sample |-> o.sample, test_case_ids |-> o.test_case_ids,
                  fail_fast_parse_rate |-> th ]
    /\ res = [candidates |-> <<>>, next |-> 1, all_rows |-> <<>>, csv |-> <<>>, trace |-> <<>>]
    /\ _FAILURE_LOG_COUNT = 0

\* The folder is missing: FileNotFoundError.
NotADirectory ==
    /\ pc = "start" /\ ~arg.is_dir
    /\ pc' = "raised"
    /\ UNCHANGED <<arg, res, _FAILURE_LOG_COUNT>>

\* The candidates are matched, filtered, and sampled or sorted.
SelectCandidates ==
    /\ pc = "start" /\ arg.is_dir
    /\ \E cands \in FinalCandidates(arg, InitialCandidates(arg)) :
          /\ res' = [res EXCEPT !.candidates = cands]
          /\ pc' = IF cands = <<>> THEN "returned" ELSE "docs"
    /\ UNCHANGED <<arg, _FAILURE_LOG_COUNT>>

\* Where the run goes after a candidate, rows being all_rows by then.
AfterCandidate(rows) ==
    IF res.next < Len(res.candidates) THEN "docs"
    ELSE IF rows = <<>> THEN "returned" ELSE "write_csv"

\* evaluate_one raised (no text in the PDF): the document is skipped.
SkipDocument ==
    /\ pc = "docs"
    /\ res' = [res EXCEPT !.next = @ + 1]
    /\ pc' = AfterCandidate(res.all_rows)
    /\ UNCHANGED <<arg, _FAILURE_LOG_COUNT>>

\* An assignment of the rows where the code extends all_rows.
ExtendRowsReplacing(e) ==
    /\ res' = [res EXCEPT !.next = @ + 1, !.all_rows = e.rows]
    /\ _FAILURE_LOG_COUNT' = e.count
    /\ pc' = AfterCandidate(e.rows)

\* all_rows.extend(rows), e being what evaluate_one gave.
ExtendRows(e) ==
    /\ res' = [res EXCEPT !.next = @ + 1, !.all_rows = @ \o e.rows]
    /\ _FAILURE_LOG_COUNT' = e.count
    /\ pc' = AfterCandidate(res.all_rows \o e.rows)

\* evaluate_one on the next candidate, the models answering or failing as
\* as[n] says.
EvaluateDocument ==
    /\ pc = "docs"
    /\ \E as \in RunOutcomes :
          ExtendRows(evaluate_one(res.candidates[res.next][2],
                                  PathStem(res.candidates[res.next][1]),
                                  [n \in 1..Len(EvalModels) |-> RunResults[as[n]]],
                                  _FAILURE_LOG_COUNT))
    /\ UNCHANGED arg

WriteCsv ==
    /\ pc = "write_csv"
    /\ res' = [res EXCEPT !.csv = write_csv(res.all_rows, @)]
    /\ pc' = "write_trace"
    /\ UNCHANGED <<arg, _FAILURE_LOG_COUNT>>

WriteTrace ==
    /\ pc = "write_trace"
    /\ res' = [res EXCEPT !.trace = write_trace_json(res.all_rows, @)]
    /\ pc' = "rate"
    /\ UNCHANGED <<arg, _FAILURE_LOG_COUNT>>

\* The summary and the fail-fast test: SystemExit below the threshold.
CheckRate ==
    /\ pc = "rate"
    /\ pc' = IF RateBelowThreshold(res.all_rows, arg.fail_fast_parse_rate) THEN "exit"
             ELSE "returned"
    /\ UNCHANGED <<arg, res, _FAILURE_LOG_COUNT>>

NextRun ==
    \/ NotADirectory \/ SelectCandidates \/ SkipDocument \/ EvaluateDocument
    \/ WriteCsv \/ WriteTrace \/ CheckRate

\* Control leaves the place named from for one of the places in to.
Proceeds(from, to) == pc = from /\ pc' \in to

\* The run is one sequential call: after the loop, write_csv, write_trace_json
\* and the rate test are total and each is taken once control is there.
SpecRun ==
    /\ InitRun /\ [][NextRun]_vars
    /\ WF_pc(Proceeds("write_csv", {"write_trace"}))
    /\ WF_pc(Proceeds("write_trace", {"rate"}))
    /\ WF_pc(Proceeds("rate", {"exit", "returned"}))

\* At least one row, a threshold, and fewer rows with parse_ok than the
\* threshold's share of the rows.
FailFastDue ==
    /\ Len(res.all_rows) >= 1
    /\ arg.fail_fast_parse_rate \in Thresholds \ {PyNone}
    /\ Cardinality({i \in 1..Len(res.all_rows) : res.all_rows[i].parse_ok = TRUE}) * Unit
         < arg.fail_fast_parse_rate.v * Len(res.all_rows)

\* Both files hold one entry for every row of all_rows, in order.
RowsPersisted ==
    /\ Len(res.csv) = Len(res.all_rows)
    /\ Len(res.trace) = Len(res.all_rows)
    /\ \A i \in 1..Len(res.all_rows) :
          /\ res.csv[i].test_case_id = res.all_rows[i].test_case_id
          /\ res.csv[i].model_id = res.all_rows[i].model_id
          /\ res.csv[i].parse_ok = res.all_rows[i].parse_ok
          /\ res.csv[i].overall_score = res.all_rows[i].overall_score
          /\ res.trace[i].test_case_id = res.all_rows[i].test_case_id
          /\ res.trace[i].model_id = res.all_rows[i].model_id
          /\ res.trace[i].parse_ok = res.all_rows[i].parse_ok
          /\ res.trace[i].raw_response = res.all_rows[i].raw_response

\* C14: when the loop has produced at least one row, a threshold is
\* configured and the share of rows with parse_ok is strictly below it, the
\* run ends with the fail-fast exit and never returns; whenever it exits,
\* every row is already in the tabular file and in the trace file; without a
\* threshold, or at or above it, the exit does not occur.
C14_FailFastAfterPersisting ==
    /\ [](pc = "exit" => FailFastDue /\ RowsPersisted)
    /\ [](pc = "returned" => ~FailFastDue)
    /\ [](IsNone(arg.fail_fast_parse_rate) => pc # "exit")
    /\ ((pc = "write_csv" /\ FailFastDue) ~> pc = "exit")

\* The run exited with six rows written, two of them parsed, under the
\* threshold 0.5.
C14_Witness ==
    /\ pc = "exit"
    /\ Len(res.all_rows) = 2 * Len(EvalModels)
    /\ ParseOkCount(res.all_rows) = 2
    /\ Len(res.csv) = Len(res.all_rows)
    /\ arg.fail_fast_parse_rate = PyNum(5 * (Unit \div 10))

(***************************************************************************)
(* Ground Truth Loader: spreadsheets.  A sheet is the sequence of its rows *)
(* (iter_rows(values_only=True)), a row the sequence of its cells, a cell  *)
(* None, a number, a bool or a string.                                     *)
(***************************************************************************)
\* str.upper() on one character.
UpperChar(c) ==
    IF \E i \in 1..26 : LowerSeq[i] = c
    THEN UpperSeq[CHOOSE i \in 1..26 : LowerSeq[i] = c]
    ELSE c

Upper(s) == [i \in 1..Len(s) |-> UpperChar(s[i])]

\* The decimal digits of a natural number.
RECURSIVE IntDigits(_)
IntDigits(k) ==
    IF k < 10 THEN <<DigitSeq[k + 1]>>
    ELSE Append(IntDigits(k \div 10), DigitSeq[(k % 10) + 1])

\* The four decimals of f / Unit without trailing zeros, one digit at least.
FractionStr(f) ==
    LET d == << DigitSeq[(f \div 1000) + 1], DigitSeq[((f \div 100) % 10) + 1],
                DigitSeq[((f \div 10) % 10) + 1], DigitSeq[(f % 10) + 1] >>
        last == LastNotIn(d, {"0"})
    IN  SubSeq(d, 1, IF last = 0 THEN 1 ELSE last)

\* str(x) of a float with at most four decimals.
FloatStr(n) ==
    (IF n < 0 THEN <<"-">> ELSE <<>>) \o IntDigits(Abs(n) \div Unit) \o <<".">>
        \o FractionStr(Abs(n) % Unit)

\* str(cell)
CellStr(cell) ==
    CASE cell.t = "str" -> cell.s
      [] cell.t = "none" -> <<"N", "o", "n", "e">>
      [] cell.t = "bool" -> IF cell.v = 1 THEN <<"T", "r", "u", "e">>
                            ELSE <<"F", "a", "l", "s", "e">>
      [] cell.t = "num" -> FloatStr(cell.v)
      [] cell.t = "nan" -> <<"n", "a", "n">>
      [] OTHER -> (IF cell.v < 0 THEN <<"-">> ELSE <<>>) \o <<"i", "n", "f">>

\* "MOIC" in s or "TVPI" in s or "IRR" in s or "DPI" in s
NamesMetric(s) ==
    \/ Contains(s, Upper(W_moic)) \/ Contains(s, Upper(W_tvpi))
    \/ Contains(s, Upper(W_irr)) \/ Contains(s, Upper(W_dpi))

_cell_looks_like_metric_label(cell) ==
    /\ ~IsNone(cell)
    /\ Strip(CellStr(cell)) # <<>>
    /\ NamesMetric(Upper(Strip(CellStr(cell))))

\* The strings _cell_looks_like_value refuses before it tries float().
NoValueStrings ==
    { <<"n", "/", "a">>, <<"n", "a">>, <<"n", "u", "l", "l">>, <<"n", "o", "n", "e">>, <<>> }

\* float(s.replace(",", "").replace("%", "").replace("x", "").strip()) succeeds.
FloatAccepts(s) ==
    ParseFloat(Strip(RemoveChar(RemoveChar(RemoveChar(s, ","), "%"), "x"))).ok

_cell_looks_like_value(cell) ==
    CASE IsNone(cell) -> FALSE
      [] IsNumber(cell) -> TRUE
      [] OTHER -> /\ Lower(Strip(CellStr(cell))) \notin NoValueStrings
                  /\ FloatAccepts(Strip(CellStr(cell)))

\* [str(c).strip().lower() if c is not None else "" for c in row]
HeaderOf(row) ==
    [i \in 1..Len(row) |-> IF IsNone(row[i]) THEN <<>> ELSE Lower(Strip(CellStr(row[i])))]

\* id_cols of load_ground_truth_from_excel, in the order of the list.
id_cols ==
    << <<"p", "d", "f">>,
       <<"f", "i", "l", "e", "n", "a", "m", "e">>,
       <<"p", "d", "f", "_", "f", "i", "l", "e", "n", "a", "m", "e">>,
       <<"t", "e", "s", "t", "_", "c", "a", "s", "e", "_", "i", "d">>,
       <<"n", "a", "m", "e">>,
       <<"g", "t", "p", "d", "f">> >>

\* header.index(name), counted from 0; -1 stands for None (name not in header).
HeaderIndex(header, name) == LeastOf({i \in 1..Len(header) : header[i] = name}) - 1

\* The column of the first name of id_cols that the header holds, -1 if none.
IdColumn(header) ==
    IF \E k \in 1..Len(id_cols) : HeaderIndex(header, id_cols[k]) >= 0
    THEN HeaderIndex(header,
            id_cols[LeastOf({k \in 1..Len(id_cols) : HeaderIndex(header, id_cols[k]) >= 0})])
    ELSE -1

\* next((i for i, h in enumerate(header) if h and <h holds one of words>), None)
FirstHolding(header, words) ==
    LeastOf({i \in 1..Len(header) : \E w \in words : Contains(header[i], w)}) - 1

\* col_index(name) or <fallback>: column 0 and None both give way to the fallback.
ColumnOr(exact, fallback) == IF exact > 0 THEN exact ELSE fallback

irr_col(header) == ColumnOr(HeaderIndex(header, K_net_irr), FirstHolding(header, {W_irr}))
moic_col(header) == ColumnOr(HeaderIndex(header, K_net_moic), FirstHolding(header, {W_moic, W_tvpi}))
dpi_col(header) == ColumnOr(HeaderIndex(header, K_net_dpi), FirstHolding(header, {W_dpi}))

\* row[col] if col is not None and col < len(row) else None
CellAt(row, col) == IF col >= 0 /\ col < Len(row) THEN row[col + 1] ELSE PyNone

\* The metrics of one row of the standard layout.
StandardMetrics(row, header) ==
    PyDict(<< <<K_net_irr, normalize_value(CellAt(row, irr_col(header)))>>,
              <<K_net_moic, normalize_value(CellAt(row, moic_col(header)))>>,
              <<K_net_dpi, normalize_value(CellAt(row, dpi_col(header)))>> >>)

\* The key of a row of the standard layout, "" when the row has no id cell
\* or a None or blank one.
StandardKey(row, id_col) ==
    IF id_col >= Len(row) \/ IsNone(CellAt(row, id_col)) THEN <<>>
    ELSE Strip(CellStr(CellAt(row, id_col)))

\* One row of the standard layout: ordered_metrics takes its metrics, result
\* and gtpdf_values take them only under a non-empty key.
StandardRow(acc, key, metrics) ==
    IF key = <<>> THEN AppendOrdered(acc, metrics)
    ELSE RegisterKey(AppendOrdered(acc, metrics), key, StemIfDotted(key), metrics)

\* for row in rows[1:], from the i-th row of the sheet on.
RECURSIVE StandardRows(_, _, _, _, _)
StandardRows(rows, i, header, id_col, acc) ==
    IF i > Len(rows) THEN acc
    ELSE StandardRows(rows, i + 1, header, id_col,
            StandardRow(acc, StandardKey(rows[i], id_col), StandardMetrics(rows[i], header)))

\* The five-key metrics dict of the alternating layout, all None.
AlternatingNone ==
    << <<K_net_irr, PyNone>>, <<K_net_moic, PyNone>>, <<K_net_dpi, PyNone>>,
       <<K_other_metric_label, PyNone>>, <<K_other_metric_value, PyNone>> >>

\* value_row[1] when it is there and not None, else value_row[0], else None.
AlternatingValueCell(value_row) ==
    IF Len(value_row) > 1 /\ ~IsNone(value_row[2]) THEN value_row[2]
    ELSE IF Len(value_row) > 0 THEN value_row[1] ELSE PyNone

\* str(label_cell).strip() if label_cell else ""
LabelStr(label_cell) == IF Truthy(label_cell) THEN Strip(CellStr(label_cell)) ELSE <<>>

\* The branch on label_upper that files val under a core metric or as other.
SetByLabel(metrics, label_str, label_upper, val) ==
    IF Contains(label_upper, Upper(W_irr)) /\ ~Contains(label_upper, Upper(W_moic))
         /\ ~Contains(label_upper, Upper(W_tvpi))
    THEN DictSet(metrics, K_net_irr, val)
    ELSE IF Contains(label_upper, Upper(W_moic)) \/ Contains(label_upper, Upper(W_tvpi))
    THEN DictSet(metrics, K_net_moic, val)
    ELSE IF Contains(label_upper, Upper(W_dpi)) THEN DictSet(metrics, K_net_dpi, val)
    ELSE DictSet(DictSet(metrics, K_other_metric_label, PyStr(label_str)),
                 K_other_metric_value, val)

\* One label row and its value row written into metrics.
PairInto(metrics, label_cell, label_str, val) ==
    IF label_str # <<>> /\ _cell_looks_like_metric_label(label_cell)
    THEN SetByLabel(metrics, label_str, Upper(label_str), val)
    ELSE IF label_str # <<>> \/ ~IsNone(val)
    THEN DictSet(DictSet(metrics, K_other_metric_label,
                         IF label_str # <<>> THEN PyStr(label_str) ELSE PyNone),
                 K_other_metric_value, val)
    ELSE metrics

\* The metrics of one document of the alternating layout.
PairMetrics(label_cell, label_str, val) == PairInto(AlternatingNone, label_cell, label_str, val)

\* for i in range(0, len(rows) - 1, 2), from the pair starting at row i on
\* (i counted from 1): an empty label row gives no document.
RECURSIVE AlternatingPairs(_, _, _)
AlternatingPairs(rows, i, ordered_metrics) ==
    IF i + 1 > Len(rows) THEN ordered_metrics
    ELSE IF rows[i] = <<>> THEN AlternatingPairs(rows, i + 2, ordered_metrics)
    ELSE AlternatingPairs(rows, i + 2,
            Append(ordered_metrics,
                   PyDict(PairMetrics(rows[i][1], LabelStr(rows[i][1]),
                                      normalize_value(AlternatingValueCell(rows[i + 1]))))))

\* rows[0][0] if rows[0] else None
FirstCell(row) == IF row = <<>> THEN PyNone ELSE row[1]

\* The result of a loader that returned.
Loaded(result, gtpdf_values, ordered_metrics) ==
    [ raised |-> FALSE, message |-> <<>>, result |-> result,
      gtpdf_values |-> gtpdf_values, ordered_metrics |-> ordered_metrics ]

\* return result, gtpdf_values, ordered_metrics
LoadedFrom(acc) == Loaded(acc.result, acc.gtpdf_values, acc.ordered_metrics)

\* gtpdf_values of the alternating layout: ("", "", m) for each m.
Unnamed(ordered_metrics) ==
    [j \in 1..Len(ordered_metrics) |-> << <<>>, <<>>, ordered_metrics[j] >>]

AlternatingOf(ordered_metrics) == Loaded(<<>>, Unnamed(ordered_metrics), ordered_metrics)

_parse_alternating_label_value_ground_truth(rows) ==
    IF rows = <<>> THEN Loaded(<<>>, <<>>, <<>>)
    ELSE AlternatingOf(AlternatingPairs(rows,
            IF _cell_looks_like_metric_label(FirstCell(rows[1])) THEN 1 ELSE 2, <<>>))

\* The three-key metrics dict of the transposed layout, all None.
TransposedNone == << <<K_net_irr, PyNone>>, <<K_net_moic, PyNone>>, <<K_net_dpi, PyNone>> >>

\* The key a row label of the transposed layout writes, <<>> if none.
TransposedKey(label) ==
    IF Contains(label, Upper(W_irr)) /\ ~Contains(label, Upper(W_moic))
         /\ ~Contains(label, Upper(W_tvpi))
    THEN K_net_irr
    ELSE IF Contains(label, Upper(W_moic)) \/ Contains(label, Upper(W_tvpi)) THEN K_net_moic
    ELSE IF Contains(label, Upper(W_dpi)) THEN K_net_dpi
    ELSE <<>>

\* One row of the transposed layout applied to the metrics of every column.
TransposedRow(ordered_metrics, row, key) ==
    [j \in 1..Len(ordered_metrics) |->
        IF j + 1 > Len(row) \/ key = <<>> THEN ordered_metrics[j]
        ELSE DictSet(ordered_metrics[j], key, normalize_value(row[j + 1]))]

\* for row in rows[1:], from the i-th row of the sheet on.
RECURSIVE TransposedRows(_, _, _)
TransposedRows(rows, i, ordered_metrics) ==
    IF i > Len(rows) THEN ordered_metrics
    ELSE IF rows[i] = <<>> \/ ~_cell_looks_like_metric_label(rows[i][1])
    THEN TransposedRows(rows, i + 1, ordered_metrics)
    ELSE TransposedRows(rows, i + 1,
            TransposedRow(ordered_metrics, rows[i],
                          TransposedKey(Upper(Strip(CellStr(rows[i][1]))))))

\* doc_ids: str(c).strip() if c is not None else "" for the header cells 1..
DocIds(header) ==
    [j \in 1..(Len(header) - 1) |->
        IF IsNone(header[j + 1]) THEN <<>> ELSE Strip(CellStr(header[j + 1]))]

\* The closing loop of the transposed layout, from the j-th column on: a
\* column enters result and gtpdf_values only under a non-empty doc_id.
RECURSIVE TransposedColumns(_, _, _, _)
TransposedColumns(doc_ids, metrics, j, acc) ==
    IF j > Len(metrics) THEN acc
    ELSE TransposedColumns(doc_ids, metrics, j + 1,
            IF doc_ids[j] = <<>> THEN acc
            ELSE RegisterKey(acc, doc_ids[j], PathStem(doc_ids[j]), metrics[j]))

\* The accumulator holding ordered_metrics before the closing loop.
WithOrdered(ordered_metrics) ==
    [ result |-> <<>>, gtpdf_values |-> <<>>, ordered_metrics |-> ordered_metrics ]

TransposedFilled(doc_ids, ordered_metrics) ==
    LoadedFrom(TransposedColumns(doc_ids, ordered_metrics, 1, WithOrdered(ordered_metrics)))

\* The metrics of the columns as dicts.
AsDicts(ordered_metrics) == [j \in 1..Len(ordered_metrics) |-> PyDict(ordered_metrics[j])]

_parse_transposed_ground_truth(rows) ==
    IF Len(rows) < 2 \/ Len(rows[1]) <= 1 THEN Loaded(<<>>, <<>>, <<>>)
    ELSE TransposedFilled(DocIds(rows[1]),
            AsDicts(TransposedRows(rows, 2, [j \in 1..(Len(rows[1]) - 1) |-> TransposedNone])))

\* repr(s) of a string holding no quote, backslash or control character.
StrRepr(s) == <<"'">> \o s \o <<"'">>

\* ", ".join of the reprs, from the i-th on.
RECURSIVE JoinReprs(_, _)
JoinReprs(header, i) ==
    IF i > Len(header) THEN <<>>
    ELSE (IF i > 1 THEN <<",", " ">> ELSE <<>>) \o StrRepr(header[i]) \o JoinReprs(header, i + 1)

\* repr(header) of a list of strings.
ListRepr(header) == <<"[">> \o JoinReprs(header, 1) \o <<"]">>

\* The text of the ValueError up to the header.
FoundHeader ==
    <<"F", "o", "u", "n", "d", " ", "h", "e", "a", "d", "e", "r", ":", " ">>

\* raise ValueError(f"... Found header: {header}")
RaiseNoLayout(header) ==
    [ raised |-> TRUE, message |-> FoundHeader \o ListRepr(header), result |-> <<>>,
      gtpdf_values |-> <<>>, ordered_metrics |-> <<>> ]

\* _value_in_row(row): the first or the second cell looks like a value.
ValueInRow(row) ==
    /\ row # <<>>
    /\ (_cell_looks_like_value(row[1]) \/ (Len(row) > 1 /\ _cell_looks_like_value(row[2])))

\* _value_cells_in_row(row)
ValueCellsInRow(row) == Cardinality({i \in 1..Len(row) : _cell_looks_like_value(row[i])})

\* n_cols = max(len(r) for r in rows)
NCols(rows) == CHOOSE n \in {Len(rows[i]) : i \in 1..Len(rows)} : \A i \in 1..Len(rows) : Len(rows[i]) <= n

\* rows[1][0] if len(rows) > 1 and rows[1] else None
Row1Label(rows) == IF Len(rows) > 1 THEN FirstCell(rows[2]) ELSE PyNone

\* The layouts without an id column, tried in the order of the code.
DetectLayout(rows) ==
    IF _cell_looks_like_metric_label(FirstCell(rows[1])) /\ Len(rows) > 1 /\ ValueInRow(rows[2])
    THEN _parse_alternating_label_value_ground_truth(rows)
    ELSE IF _cell_looks_like_metric_label(Row1Label(rows)) /\ Len(rows) > 2 /\ ValueInRow(rows[3])
    THEN IF ValueCellsInRow(rows[3]) >= 2 THEN _parse_transposed_ground_truth(rows)
         ELSE _parse_alternating_label_value_ground_truth(rows)
    ELSE IF _cell_looks_like_metric_label(Row1Label(rows)) /\ NCols(rows) > 2
    THEN _parse_transposed_ground_truth(rows)
    ELSE RaiseNoLayout(HeaderOf(rows[1]))

\* load_ground_truth_from_excel on a workbook of one sheet, rows being its rows.
LoadSingleSheet(rows) ==
    IF rows = <<>> THEN Loaded(<<>>, <<>>, <<>>)
    ELSE IF IdColumn(HeaderOf(rows[1])) >= 0
    THEN LoadedFrom(StandardRows(rows, 2, HeaderOf(rows[1]), IdColumn(HeaderOf(rows[1])), NoDocuments))
    ELSE DetectLayout(rows)

\* A header of a tab names a metric: "irr", "moic", "tvpi" or "dpi" in h.
NamesMetricLower(h) ==
    Contains(h, W_irr) \/ Contains(h, W_moic) \/ Contains(h, W_tvpi) \/ Contains(h, W_dpi)

\* The key a header cell of a tab writes, <<>> if none.
HeaderKey(h) ==
    IF Contains(h, W_irr) /\ ~Contains(h, W_moic) /\ ~Contains(h, W_tvpi) THEN K_net_irr
    ELSE IF Contains(h, W_moic) \/ Contains(h, W_tvpi) THEN K_net_moic
    ELSE IF Contains(h, W_dpi) THEN K_net_dpi
    ELSE <<>>

\* The header row and value row of a tab, from the i-th header cell on.
RECURSIVE HeaderValues(_, _, _, _)
HeaderValues(header, val_row, i, metrics) ==
    IF i > Len(header) THEN metrics
    ELSE HeaderValues(header, val_row, i + 1,
            IF HeaderKey(header[i]) = <<>> THEN metrics
            ELSE DictSet(metrics, HeaderKey(header[i]),
                         normalize_value(IF i <= Len(val_row) THEN val_row[i] ELSE PyNone)))

\* The label/value pairs of a tab, all written into one metrics dict.
RECURSIVE SheetPairs(_, _, _)
SheetPairs(data_rows, i, metrics) ==
    IF i + 1 > Len(data_rows) THEN metrics
    ELSE IF data_rows[i] = <<>> THEN SheetPairs(data_rows, i + 2, metrics)
    ELSE SheetPairs(data_rows, i + 2,
            PairInto(metrics, data_rows[i][1], LabelStr(data_rows[i][1]),
                     normalize_value(AlternatingValueCell(data_rows[i + 1]))))

_parse_one_sheet_metrics(data_rows) ==
    IF data_rows = <<>> THEN PyDict(AlternatingNone)
    ELSE IF Len(data_rows) >= 2
            /\ \E i \in 1..Len(data_rows[1]) : NamesMetricLower(HeaderOf(data_rows[1])[i])
    THEN PyDict(HeaderValues(HeaderOf(data_rows[1]), data_rows[2], 1, AlternatingNone))
    ELSE PyDict(SheetPairs(data_rows, 1, AlternatingNone))

\* "Sheet_" of the fallback key f"Sheet_{len(gtpdf_values)}".
SheetPrefix == <<"S", "h", "e", "e", "t", "_">>

\* The key of a tab: A1, else the sheet title, else Sheet_<n>.
TabKey(ws, n) ==
    IF ~IsNone(FirstCell(ws.rows[1])) /\ Strip(CellStr(FirstCell(ws.rows[1]))) # <<>>
    THEN Strip(CellStr(FirstCell(ws.rows[1])))
    ELSE IF Strip(ws.title) # <<>> THEN Strip(ws.title)
    ELSE SheetPrefix \o IntDigits(n)

\* One tab with rows registered under its key.
RegisterTab(acc, key, metrics) ==
    RegisterKey(AppendOrdered(acc, metrics), key, StemIfDotted(key), metrics)

\* for ws in sheets, from the i-th sheet on: a sheet without rows is skipped.
RECURSIVE LoadTabs(_, _, _)
LoadTabs(sheets, i, acc) ==
    IF i > Len(sheets) THEN acc
    ELSE IF sheets[i].rows = <<>> THEN LoadTabs(sheets, i + 1, acc)
    ELSE LoadTabs(sheets, i + 1,
            RegisterTab(acc, TabKey(sheets[i], Len(acc.gtpdf_values)),
                        _parse_one_sheet_metrics(Tail(sheets[i].rows))))

\* load_ground_truth_from_excel(excel_path), sheets being wb.worksheets as
\* records [title, rows]; the first sheet stands for wb.active.
load_ground_truth_from_excel(sheets) ==
    IF Len(sheets) >= 2 THEN LoadedFrom(LoadTabs(sheets, 1, NoDocuments))
    ELSE LoadSingleSheet(sheets[1].rows)

(***************************************************************************)
(* SpecLoad: load_ground_truth_from_excel on its own, over workbooks of    *)
(* one sheet of up to MaxRows rows and workbooks of two tabs.              *)
(***************************************************************************)
MaxRows == 3

N_0_15 == PyNum(15 * (Unit \div 100))
N_0_2 == PyNum(2 * (Unit \div 10))
N_1_3 == PyNum(13 * (Unit \div 10))

\* Rows of three cells: a header with an id column, a row under it with an
\* id and one with a None id, a header of document names with a None name, a
\* label row with values and one without, a value row, and a row of notes.
SheetRows ==
    << << PyStr(<<"p", "d", "f">>), PyStr(<<"i", "r", "r">>), PyStr(<<"m", "o", "i", "c">>) >>,
       << PyStr(<<"a", ".", "p", "d", "f">>), N_0_15, N_1_2 >>,
       << PyNone, N_0_2, N_1_3 >>,
       << PyStr(<<"M", "e", "t", "r", "i", "c">>), PyStr(<<"D", "o", "c", " ", "A">>), PyNone >>,
       << PyStr(<<"I", "R", "R">>), N_0_15, N_0_2 >>,
       << PyStr(<<"I", "R", "R">>), PyNone, PyNone >>,
       << N_0_15, PyNone, PyNone >>,
       << PyStr(<<"n", "o", "t", "e", "s">>), PyStr(<<"n", "/", "a">>), PyNone >> >>

\* The sheets of up to MaxRows rows drawn from SheetRows.
Sheets ==
    { [k \in DOMAIN pick |-> SheetRows[pick[k]]] :
        pick \in UNION { [1..n -> 1..Len(SheetRows)] : n \in 0..MaxRows } }

\* Tabs: a document name in A1 over a label/value pair, a None A1 over a
\* header row and its values, and a tab without rows.
Tabs ==
    { [title |-> <<"T", "1">>, rows |-> <<SheetRows[2], SheetRows[5], SheetRows[7]>>],
      [title |-> <<>>, rows |-> <<SheetRows[3], SheetRows[1], SheetRows[2]>>],
      [title |-> <<"T", "3">>, rows |-> <<>>] }

Workbooks ==
    { << [title |-> <<"S", "h", "e", "e", "t", "1">>, rows |-> rows] >> : rows \in Sheets }
      \cup { <<a, b>> : a \in Tabs, b \in Tabs }

InitLoad ==
    /\ pc = "call"
    /\ arg \in Workbooks
    /\ res = PyNone
    /\ _FAILURE_LOG_COUNT = 0

ApplyLoadExcel ==
    /\ pc = "call"
    /\ res' = load_ground_truth_from_excel(arg)
    /\ pc' = IF load_ground_truth_from_excel(arg).raised THEN "raised" ELSE "returned"
    /\ UNCHANGED <<arg, _FAILURE_LOG_COUNT>>

SpecLoad == InitLoad /\ [][ApplyLoadExcel]_vars

\* The rows among the first two whose first cell is a metric label.
LabelRows(rows) ==
    {i \in 1..Len(rows) : i <= 2 /\ _cell_looks_like_metric_label(FirstCell(rows[i]))}

\* Some cell of row i or of a later row looks like a value.
ValueFrom(rows, i) ==
    \E k \in i..Len(rows) : \E c \in 1..Len(rows[k]) : _cell_looks_like_value(rows[k][c])

\* A sheet without an id column that reads neither as label/value nor as
\* transposed: no label row among the first two, or no value at or after any.
Unreadable(rows) ==
    /\ rows # <<>>
    /\ IdColumn(HeaderOf(rows[1])) < 0
    /\ \A i \in LabelRows(rows) : ~ValueFrom(rows, i)

\* C15: on a workbook of one sheet without an id column whose first two rows
\* read neither as label/value nor as transposed, load_ground_truth_from_excel
\* raises an error whose message holds the observed header, and does not
\* return.
C15_UnreadableLayoutRaises ==
    (pc # "call" /\ Len(arg) = 1 /\ Unreadable(arg[1].rows)) =>
        /\ pc = "raised"
        /\ Contains(res.message, ListRepr(HeaderOf(arg[1].rows[1])))

\* C16: whatever the layout, the third value the loader returns is the
\* second without the identifiers: same length, same order, same metrics.
C16_OrderedMetricsMirrorTriples ==
    pc = "returned" =>
        /\ Len(res.ordered_metrics) = Len(res.gtpdf_values)
        /\ \A i \in 1..Len(res.gtpdf_values) : res.ordered_metrics[i] = res.gtpdf_values[i][3]

(***************************************************************************)
(* SpecScope: evaluate_one with its parameters metrics_in_scope and        *)
(* allow_projected_metrics, on a document whose text and test case id may  *)
(* carry a projection keyword.  res holds the local projected and rows.    *)
(***************************************************************************)
_PROJECTED_DOC_KEYWORDS ==
    << <<"e", "s", "t", "i", "m", "a", "t", "e">>,
       <<"p", "r", "o", "j", "e", "c", "t", "i", "o", "n">>,
       <<"f", "o", "r", "e", "c", "a", "s", "t">> >>

\* combined = f"{(pdf_text or '').lower()} {(test_case_id or '').lower()}"
Combined(pdf_text, test_case_id) == Lower(pdf_text) \o <<" ">> \o Lower(test_case_id)

_is_projected_document(pdf_text, test_case_id) ==
    \E k \in 1..Len(_PROJECTED_DOC_KEYWORDS) :
        Contains(Combined(pdf_text, test_case_id), _PROJECTED_DOC_KEYWORDS[k])

\* Extracted texts: none, a report, and a report labelled as a forecast.
ScopeTexts ==
    { <<>>,
      <<"i", "r", "r", " ", "r", "e", "p", "o", "r", "t">>,
      <<"I", "R", "R", " ", "F", "o", "r", "e", "c", "a", "s", "t">> }

ScopeTestCaseIds ==
    { <<"F", "u", "n", "d", " ", "A">>,
      <<"F", "u", "n", "d", " ", "A", " ", "E", "s", "t", "i", "m", "a", "t", "e">> }

\* metrics_in_scope: None, ["irr"] and ["moic", "dpi"].
ScopeLists == { PyNone, PyList(<<PyStr(K_irr)>>), PyList(<<PyStr(K_moic), PyStr(K_dpi)>>) }

\* Ground truths: irr and moic expected, nothing expected, irr and the other
\* metric expected.
ScopeGroundTruths ==
    { PyDict(<< <<K_net_irr, N_15_5>>, <<K_net_moic, N_1_2>>, <<K_net_dpi, PyNone>> >>),
      PyDict(<< <<K_net_irr, PyNone>>, <<K_net_moic, PyNone>>, <<K_net_dpi, PyNone>> >>),
      PyDict(<< <<K_net_irr, N_15_5>>, <<K_net_moic, PyNone>>, <<K_net_dpi, PyNone>>,
                <<K_other_metric_label, PyStr(L_ytd_whcm)>>,
                <<K_other_metric_value, N_neg_0_045>> >>) }

\* What a model may answer here: an object with irr and moic, or prose.
ScopeResponses ==
    { ObjectText(<<Member(K_net_irr, T_15_5), Member(K_net_moic, T_1_2)>>),
      <<"i", "r", "r", " ">> \o T_0_155 }

InitScope ==
    /\ pc = "start"
    /\ arg \in [ gt : ScopeGroundTruths, pdf_text : ScopeTexts, test_case_id : ScopeTestCaseIds,
                 metrics_in_scope : ScopeLists, allow_projected_metrics : BOOLEAN ]
    /\ res = [projected |-> FALSE, rows |-> <<>>]
    /\ _FAILURE_LOG_COUNT = 0

\* Up to the loop: no text raises ValueError; projected is computed.
ScopeExtractText ==
    /\ pc = "start"
    /\ pc' = IF arg.pdf_text = <<>> THEN "raised" ELSE "loop"
    /\ res' = [res EXCEPT !.projected = arg.pdf_text # <<>>
                                          /\ _is_projected_document(arg.pdf_text, arg.test_case_id)]
    /\ UNCHANGED <<arg, _FAILURE_LOG_COUNT>>

\* rows.append(row) in this specification.
ScopeAppendRow(e) ==
    /\ res' = [res EXCEPT !.rows = Append(@, e.row)]
    /\ _FAILURE_LOG_COUNT' = e.count

\* One pass of the loop over the models: the body reads gt and tolerance,
\* and neither projected, allow_projected_metrics nor metrics_in_scope.
ScopeLoopBody(r) ==
    /\ pc = "loop"
    /\ ScopeAppendRow(EvaluateModel(arg.gt, EvalModels[Len(res.rows) + 1], r, Tolerance,
                                    _FAILURE_LOG_COUNT))
    /\ pc' = IF Len(res.rows) + 1 = Len(EvalModels) THEN "done" ELSE "loop"
    /\ UNCHANGED arg

ScopeModelAnswers == \E content \in ScopeResponses : ScopeLoopBody(run_model(content))

NextScope == ScopeExtractText \/ ScopeModelAnswers

SpecScope == InitScope /\ [][NextScope]_vars

\* The text or the test case id of the document carries a projection keyword.
Labelled(a) ==
    \E k \in 1..Len(_PROJECTED_DOC_KEYWORDS) :
        \/ Contains(Lower(a.pdf_text), _PROJECTED_DOC_KEYWORDS[k])
        \/ Contains(Lower(a.test_case_id), _PROJECTED_DOC_KEYWORDS[k])

\* The number of expected values of gt that are present.
ExpectedCount(gt) ==
    Cardinality({k \in {K_net_irr, K_net_moic, K_net_dpi, K_other_metric_value} :
                    ~IsNone(DictGet(gt, k))})

\* C17: with allow_projected_metrics false, every row of a document whose
\* text or test case id holds "estimate", "projection" or "forecast" has none
\* of its metrics in score_denom; with allow_projected_metrics true the
\* document is scored as any other.
C17_ProjectedExcludedFromDenom ==
    pc = "done" =>
        \A i \in 1..Len(res.rows) :
            res.rows[i].grading_explanation.score_denom =
                IF Labelled(arg) /\ ~arg.allow_projected_metrics THEN 0
                ELSE ExpectedCount(arg.gt)

\* The canonical name under which an expected value of gt is scored.
ScopeName(gt, k) ==
    CASE k = K_net_irr -> K_irr
      [] k = K_net_moic -> K_moic
      [] k = K_net_dpi -> K_dpi
      [] OTHER -> LabelKey(LabelText(DictGet(gt, K_other_metric_label)).s)

\* The present expected values of gt whose canonical name is in the list.
Listed(gt, list) ==
    {k \in {K_net_irr, K_net_moic, K_net_dpi, K_other_metric_value} :
        /\ ~IsNone(DictGet(gt, k))
        /\ \E j \in 1..Len(list.o) : list.o[j] = PyStr(ScopeName(gt, k))}

\* The part of score_num a row owes to the expected values in ks.
MatchedIn(row, ks) ==
    (IF K_net_irr \in ks THEN row.irr_match ELSE 0)
    + (IF K_net_moic \in ks THEN row.moic_match ELSE 0)
    + (IF K_net_dpi \in ks THEN row.dpi_match ELSE 0)
    + (IF K_other_metric_value \in ks THEN row.other_metric_match ELSE 0)

\* C18: when metrics_in_scope is given, score_denom counts the present
\* expected values named in the list and no others, and score_num counts
\* the matches among them.
C18_OnlyListedMetricsCount ==
    (pc = "done" /\ ~IsNone(arg.metrics_in_scope)) =>
        \A i \in 1..Len(res.rows) :
            /\ res.rows[i].grading_explanation.score_denom
                 = Cardinality(Listed(arg.gt, arg.metrics_in_scope))
            /\ res.rows[i].grading_explanation.score_num
                 = MatchedIn(res.rows[i], Listed(arg.gt, arg.metrics_in_scope))

(***************************************************************************)
(* SpecParallel: the loop body of evaluate_one run for MaxWorkers          *)
(* (document, model) pairs at once, without locks.  Each worker takes the  *)
(* steps of the body in order; the steps of different workers interleave.  *)
(* What the workers share is what the code keeps outside the body: the     *)
(* module-level _FAILURE_LOG_COUNT and the list rows.  pc, and the fields  *)
(* row and loaded of res, are per worker; res.logged counts the failure    *)
(* logs printed.                                                           *)
(***************************************************************************)
MaxWorkers == 2

Workers == 1..MaxWorkers

\* A pair to evaluate: a document's ground truth and the model's answer.
\* The first scores 1.0, the second below 1.0, the third has nothing in scope.
Evaluations ==
    { [gt |-> PyDict(<< <<K_net_irr, N_15_5>>, <<K_net_moic, N_1_2>>, <<K_net_dpi, PyNone>> >>),
       content |-> ObjectText(<<Member(K_net_irr, T_15_5), Member(K_net_moic, T_1_2)>>)],
      [gt |-> PyDict(<< <<K_net_irr, N_15_5>>, <<K_net_moic, N_1_2>>, <<K_net_dpi, PyNone>> >>),
       content |-> <<"i", "r", "r", " ">> \o T_0_155],
      [gt |-> PyDict(<< <<K_net_irr, PyNone>>, <<K_net_moic, PyNone>>, <<K_net_dpi, PyNone>> >>),
       content |-> <<"i", "r", "r", " ">> \o T_0_155] }

\* The row of worker w, as the loop body builds it.
WorkerRow(w) ==
    EvaluateModel(arg.evals[w].gt, EvalModels[w], run_model(arg.evals[w].content),
                  Tolerance, arg.count).row

\* The scores the failure log's test reads, taken from the row.
RowScores(row) ==
    [ score_denom |-> row.grading_explanation.score_denom, overall_score |-> row.overall_score ]

InitParallel ==
    /\ pc = [w \in Workers |-> "evaluate"]
    /\ arg \in [ evals : [Workers -> Evaluations], count : {0, _FAILURE_LOG_MAX - 1} ]
    /\ res = [ rows |-> <<>>, row |-> [w \in Workers |-> <<>>],
               loaded |-> [w \in Workers |-> 0], logged |-> 0 ]
    /\ _FAILURE_LOG_COUNT = arg.count

\* Lines 1172-1247 for worker w: run_model, the match flags and the score,
\* all on values local to the pass.
EvaluateStep(w) ==
    /\ pc[w] = "evaluate"
    /\ res' = [res EXCEPT !.row[w] = WorkerRow(w)]
    /\ pc' = [pc EXCEPT ![w] = "test"]
    /\ UNCHANGED <<arg, _FAILURE_LOG_COUNT>>

\* Line 1250: the test reads _FAILURE_LOG_COUNT.
TestStep(w) ==
    /\ pc[w] = "test"
    /\ pc' = [pc EXCEPT ![w] = IF LogsFailure(_FAILURE_LOG_COUNT, RowScores(res.row[w]))
                                THEN "load" ELSE "append"]
    /\ UNCHANGED <<arg, res, _FAILURE_LOG_COUNT>>

\* Line 1251, first half of `_FAILURE_LOG_COUNT += 1`: the value is read.
LoadStep(w) ==
    /\ pc[w] = "load"
    /\ res' = [res EXCEPT !.loaded[w] = _FAILURE_LOG_COUNT]
    /\ pc' = [pc EXCEPT ![w] = "store"]
    /\ UNCHANGED <<arg, _FAILURE_LOG_COUNT>>

\* Line 1251, second half: the value read plus one is written; the log
\* lines of the failure are printed.
StoreStep(w) ==
    /\ pc[w] = "store"
    /\ _FAILURE_LOG_COUNT' = res.loaded[w] + 1
    /\ res' = [res EXCEPT !.logged = @ + 1]
    /\ pc' = [pc EXCEPT ![w] = "append"]
    /\ UNCHANGED arg

\* Line 1306: rows.append(row).
AppendStep(w) ==
    /\ pc[w] = "append"
    /\ res' = [res EXCEPT !.rows = Append(@, res.row[w])]
    /\ pc' = [pc EXCEPT ![w] = "done"]
    /\ UNCHANGED <<arg, _FAILURE_LOG_COUNT>>

NextParallel ==
    \E w \in Workers :
        EvaluateStep(w) \/ TestStep(w) \/ LoadStep(w) \/ StoreStep(w) \/ AppendStep(w)

SpecParallel == InitParallel /\ [][NextParallel]_vars

\* The workers whose row fails the test of the failure log whatever the count.
FailingWorkers ==
    {w \in Workers : LogsFailure(0, RowScores(WorkerRow(w)))}

\* The value a run of the workers one after another leaves in
\* _FAILURE_LOG_COUNT: one more per failing row, up to _FAILURE_LOG_MAX.
SequentialCount ==
    IF arg.count + Cardinality(FailingWorkers) < _FAILURE_LOG_MAX
    THEN arg.count + Cardinality(FailingWorkers)
    ELSE _FAILURE_LOG_MAX

\* C19: under every interleaving of the evaluations of distinct (document,
\* model) pairs the module-level _FAILURE_LOG_COUNT keeps what holds of it
\* in a sequential run, where it never exceeds _FAILURE_LOG_MAX and has
\* grown by one for each failure logged, and when all pairs are done every
\* pair has the row and the counter the value that a sequential run gives.
C19_InterleavingKeepsSequentialState ==
    /\ _FAILURE_LOG_COUNT <= _FAILURE_LOG_MAX
    /\ _FAILURE_LOG_COUNT = arg.count + res.logged
    /\ (\A w \in Workers : pc[w] = "done") =>
          /\ _FAILURE_LOG_COUNT = SequentialCount
          /\ Len(res.rows) = MaxWorkers
          /\ \A w \in Workers : \E i \in 1..Len(res.rows) : res.rows[i] = WorkerRow(w)

(***************************************************************************)
(* SpecOther: evaluate_one on a document whose ground truth may expect     *)
(* another metric, the models answering with the expected number in the    *)
(* place of that metric, in another place, or nowhere.                     *)
(***************************************************************************)
T_7_0 == <<"7", ".", "0">>
T_neg_0_045 == <<"-", "0", ".", "0", "4", "5">>

\* Ground truths: the other metric expected, alone or with the irr, and no
\* other metric.
OtherGroundTruths ==
    { PyDict(<< <<K_net_irr, i>>, <<K_net_moic, PyNone>>, <<K_net_dpi, PyNone>> >> \o o) :
        i \in {PyNone, N_15_5},
        o \in { <<>>,
                << <<K_other_metric_label, PyStr(L_ytd_whcm)>>,
                   <<K_other_metric_value, N_neg_0_045>> >> } }

\* What a model may answer here: the other metric in percent under its
\* label, the number under irr only, another number under the label and the
\* number under moic, prose with the number, an object without the number.
OtherResponses ==
    { ObjectText(<<Member(K_other_metric_label, Quoted(L_ytd_whcm)),
                   Member(K_other_metric_value, T_neg_4_5)>>),
      ObjectText(<<Member(K_irr, T_neg_4_5)>>),
      ObjectText(<<Member(K_other_metric_label, Quoted(L_ytd_whcm)),
                   Member(K_other_metric_value, T_7_0), Member(K_moic, T_neg_0_045)>>),
      <<"w", "h", "c", "m", " ">> \o T_neg_4_5,
      ObjectText(<<Member(K_net_irr, T_15_5), Member(K_net_moic, T_1_2)>>) }

InitOther ==
    /\ pc = "start"
    /\ arg \in [gt : OtherGroundTruths, has_text : BOOLEAN]
    /\ res = <<>>
    /\ _FAILURE_LOG_COUNT = 0

OtherModelAnswers == \E content \in OtherResponses : LoopBody(run_model(content))

NextOther == ExtractText \/ OtherModelAnswers

SpecOther == InitOther /\ [][NextOther]_vars

\* The row's resolved prediction of the other metric is absent, or differs
\* from the expected value beyond the tolerance under every scale.
OtherPredMisses(row) ==
    \/ row.other_metric_value_pred = PyStr(<<>>)
    \/ ~gt_value_appears_in_set(row.other_metric_value_gt, <<row.other_metric_value_pred>>,
                                Tolerance, TRUE)

\* C20: in every row of a document whose ground truth expects another
\* metric, other_metric_match is 0 when the model's resolved prediction of
\* that metric is absent or differs from the expected value beyond the
\* scale-flexible tolerance, wherever else the expected number occurs.
C20_OtherMatchFromResolvedPrediction ==
    \A i \in 1..Len(res) :
        (res[i].other_metric_value_gt # PyStr(<<>>) /\ OtherPredMisses(res[i]))
            => res[i].other_metric_match = 0

(***************************************************************************)
(* SpecAlias: _match_pdf_to_ground_truth with short document names and     *)
(* with names whose words are parts of the words of the PDF's name.        *)
(***************************************************************************)
AliasPdfNames == { <<"F", "u", "n", "d", " ", "A", ".", "p", "d", "f">>,
                   <<"A", ".", "p", "d", "f">>,
                   <<"F", "u", ".", "p", "d", "f">> }

\* Document names of the ground truth: a full name, names of one and two
\* characters, a name whose only significant word is the start of a word of
\* "Fund A", the words of "Fund A" in another order, an unrelated name.
AliasKeys ==
    << <<"F", "u", "n", "d", " ", "A">>,
       <<"A">>,
       <<"F", "u">>,
       <<"F", "u", "n", " ", "B">>,
       <<"A", ",", " ", "F", "u", "n", "d">>,
       <<"O", "t", "h", "e", "r">> >>

AliasDocs(ks) == [n \in 1..Len(ks) |-> <<AliasKeys[ks[n]], MetricsOf(ks[n], n)>>]

AliasLists == UNION { [1..n -> 1..Len(AliasKeys)] : n \in 0..MaxEntries }

InitAlias ==
    /\ pc = "call"
    /\ arg \in [pdf_name : AliasPdfNames, keys : AliasLists]
    /\ res = <<>>
    /\ _FAILURE_LOG_COUNT = 0

ApplyAliasMatch ==
    /\ pc = "call"
    /\ res' = MatchLoaded(arg.pdf_name, LoadDocuments(AliasDocs(arg.keys)))
    /\ pc' = "returned"
    /\ UNCHANGED <<arg, _FAILURE_LOG_COUNT>>

SpecAlias == InitAlias /\ [][ApplyAliasMatch]_vars

\* The ground-truth list of the call, and the stem of its PDF.
AliasEntries == LoadDocuments(AliasDocs(arg.keys)).gtpdf_values

AliasStem == PathStem(arg.pdf_name)

\* The call returned the metrics of the entry at place n from the loop, no
\* earlier place having returned.
ReturnedAt(n) ==
    /\ pc = "returned"
    /\ res = AliasEntries[n][3]
    /\ IsNone(PyOr(DictGet(PyDict(LoadDocuments(AliasDocs(arg.keys)).result), arg.pdf_name),
                   DictGet(PyDict(LoadDocuments(AliasDocs(arg.keys)).result), AliasStem)))
    /\ \A m \in 1..(n - 1) :
          ~EntryReturns(arg.pdf_name, AliasStem, AliasEntries[m][1], AliasEntries[m][2])

\* An alias of the entry e equals the PDF's name or stem after normalising.
EqualAfterNormalising(e) ==
    \/ NormEqual(_normalize_for_match(e[1]), arg.pdf_name, AliasStem)
    \/ NormEqual(_normalize_for_match(e[2]), arg.pdf_name, AliasStem)

\* The aliases of e that contain the lower-cased stem or are contained in it.
ContainingAliases(e) ==
    {a \in {Lower(e[1]), Lower(e[2])} : EitherContains(a, Lower(AliasStem))}

\* The whole tokens of the normalised text t.
Tokens(t) == {SubSeq(t, i, FirstIn(t, i, {" "}) - 1) : i \in WordStarts(t)}

\* The token-overlap rule as stated: the alias has a token of length 3 or
\* more and each such token is a whole token of the candidate.
TokenOverlap(key_norm, pdf_norm) ==
    /\ \E w \in Tokens(key_norm) : Len(w) >= 3
    /\ \A w \in Tokens(key_norm) : Len(w) >= 3 => w \in Tokens(pdf_norm)

\* C21: when the loop returns an entry that matches by substring containment
\* alone (neither by normalised equality nor by token overlap), the shorter
\* of the candidate stem and of a containing alias has at least 3
\* characters; a stem of fewer than 3 characters matches no longer alias.
C21_ContainmentNeedsThreeChars ==
    \A n \in 1..Len(AliasEntries) :
        ( /\ ReturnedAt(n)
          /\ ~EqualAfterNormalising(AliasEntries[n])
          /\ ~WordMatch(_normalize_for_match(AliasEntries[n][1]), _normalize_for_match(AliasStem)) )
        => \E a \in ContainingAliases(AliasEntries[n]) : Len(a) >= 3 /\ Len(AliasStem) >= 3

\* C22: when the loop returns an entry that matches neither by normalised
\* equality nor by substring containment, the alias has a token of length 3
\* or more and every such token is a whole token of the normalised
\* candidate name; and when an entry of 3 characters or more has an alias
\* that overlaps in that way the call returns a ground truth.
C22_TokenOverlapOnWholeTokens ==
    \A n \in 1..Len(AliasEntries) :
        /\ ( /\ ReturnedAt(n)
             /\ ~EqualAfterNormalising(AliasEntries[n])
             /\ ContainingAliases(AliasEntries[n]) = {} )
           => TokenOverlap(_normalize_for_match(AliasEntries[n][1]), _normalize_for_match(AliasStem))
        /\ ( /\ pc = "returned"
             /\ Len(AliasEntries[n][2]) >= 3
             /\ TokenOverlap(_normalize_for_match(AliasEntries[n][1]), _normalize_for_match(AliasStem)) )
           => ~IsNone(res)

\* The call of unit_normalize_pred has returned, for a rate-like metric
\* kind and a predicted value that is present.
RateCallReturned ==
    /\ pc = "returned"
    /\ arg.metric_kind \in rate_metrics
    /\ ~IsNone(arg.pred_val)

N_0_163 == PyNum(163 * (Unit \div 1000))
N_16_3 == PyNum(163 * (Unit \div 10))
N_3_52 == PyNum(352 * (Unit \div 100))
N_352 == PyNum(352 * Unit)

\* C23: for a rate-like kind, a predicted value p and no label hint,
\* unit_normalize_pred returns 100p when the expected value g is present
\* with |g| > 1 and |p| <= 1, p/100 when g is present with |g| < 1, |p| > 1
\* and |g - p/100| < |g - p|, and p in every other case, an absent g
\* included; g = 0.163 and p = 16.3 give 0.163, which values_match accepts
\* within the tolerance 0.01.
C23_RateRescaling ==
    (RateCallReturned /\ arg.label_hint = PyNone) =>
        /\ res = IF IsNone(arg.gt_val) THEN arg.pred_val
                 ELSE IF FLt(POne, FAbs(arg.gt_val)) /\ FLe(FAbs(arg.pred_val), POne)
                      THEN FMul100(arg.pred_val)
                 ELSE IF /\ FLt(FAbs(arg.gt_val), POne)
                         /\ FLt(POne, FAbs(arg.pred_val))
                         /\ FLt(FAbs(FSub(arg.gt_val, FDiv100(arg.pred_val))),
                                FAbs(FSub(arg.gt_val, arg.pred_val)))
                      THEN FDiv100(arg.pred_val)
                 ELSE arg.pred_val
        /\ (arg.gt_val = N_0_163 /\ arg.pred_val = N_16_3) =>
              res = N_0_163 /\ values_match(arg.gt_val, res, Tolerance)

\* The percent 1.5 against the expected fraction 0.9 came back unchanged:
\* dividing by 100 would not reduce the error.
C23_Witness ==
    /\ RateCallReturned
    /\ arg.label_hint = PyNone
    /\ arg.gt_val = PyNum(9 * (Unit \div 10))
    /\ arg.pred_val = PyNum(15 * (Unit \div 10))
    /\ res = arg.pred_val

\* The label hint holds "bp" in any case.
HintNamesBasisPoints ==
    /\ arg.label_hint.t = "str"
    /\ Contains(Lower(arg.label_hint.s), <<"b", "p">>)

\* C24: for a rate-like kind and a label hint holding a basis-point marker
\* in any case, unit_normalize_pred(p, g, kind, hint) equals
\* unit_normalize_pred(p/100, g, kind, no hint): the division by 100 is
\* applied once and before the fraction/percent checks; 352 bps against the
\* expected 3.52 gives 3.52.
C24_BasisPointsFirst ==
    (RateCallReturned /\ HintNamesBasisPoints) =>
        /\ res = unit_normalize_pred(FDiv100(arg.pred_val), arg.gt_val, arg.metric_kind, PyNone)
        /\ (arg.pred_val = N_352 /\ arg.gt_val = N_3_52) => res = N_3_52

\* 16.3 bps against the expected percent 15.5: the division gives 0.163,
\* which the fraction check then multiplies by 100.
C24_Witness ==
    /\ RateCallReturned
    /\ HintNamesBasisPoints
    /\ arg.pred_val = N_16_3
    /\ arg.gt_val = N_15_5
    /\ res = N_16_3

\* The unit markers that are to be stripped from the end of a value; "MULT"
\* stands for the multiplication sign U+00D7.
UnitMarkers == {"%", "x", "MULT"}

\* The value of a string val as stated: trimmed and lower-cased, absent for
\* a sentinel, else parsed without thousands separators and trailing unit
\* markers, absent when that does not parse.
ValueAsStated(val) ==
    IF Lower(Strip(val)) \in SentinelStrings THEN PyNone
    ELSE FloatOrNone(ParseFloat(Strip(RStrip(RemoveChar(Lower(Strip(val)), ","), UnitMarkers))))

\* C25: normalize_value of a string trims and lower-cases it, gives absent
\* for "", "n/a", "na", "null" and "none", strips thousands separators and
\* every trailing unit marker among "%", "x" and the multiplication sign
\* before parsing, and gives absent for what still does not parse; so
\* "15.5%", "15.5x" and "15.5" followed by the multiplication sign all give
\* 15.5.
C25_UnitMarkersStripped ==
    (pc # "call" /\ arg.t = "str") =>
        /\ res[1] = ValueAsStated(arg.s)
        /\ arg.s \in {T_15_5 \o <<m>> : m \in UnitMarkers} => res[1] = N_15_5

(***************************************************************************)
(* SpecPartial: extract_json_from_response on responses cut before the     *)
(* closing brace, made of at most MaxSegs pieces: an object opened with a  *)
(* first member, further members for the three core keys (a second net_irr,*)
(* a null, a string value), a member without comma, and braces.            *)
(***************************************************************************)
PartialSegments ==
    { <<"{">> \o Member(K_net_irr, <<"1", ".", "5">>),
      <<",", " ">> \o Member(K_net_irr, <<"-", "2">>),
      <<",", " ">> \o Member(K_net_moic, T_null),
      <<",", " ">> \o Member(K_net_dpi, Quoted(<<"x">>)),
      Quoted(K_net_dpi) \o <<" ", ":", " ">> \o <<"0", ".", "5">>,
      <<"}">>,
      <<"{">> }

\* The texts of at most n of these pieces.
RECURSIVE PartialTexts(_)
PartialTexts(n) ==
    IF n = 0 THEN {<<>>}
    ELSE PartialTexts(n - 1) \cup {p \o s : p \in PartialTexts(n - 1), s \in PartialSegments}

InitPartial ==
    /\ pc = "call"
    /\ arg \in PartialTexts(MaxSegs)
    /\ res = <<>>
    /\ _FAILURE_LOG_COUNT = 0

ApplyPartial ==
    /\ pc = "call"
    /\ res' = extract_json_from_response(arg)
    /\ pc' = "returned"
    /\ UNCHANGED <<arg, _FAILURE_LOG_COUNT>>

SpecPartial == InitPartial /\ [][ApplyPartial]_vars

\* The response holds no complete brace-balanced object: no part of it from
\* an opening to a closing brace has as many opening as closing braces.
NoBalancedObject ==
    ~\E i \in 1..Len(arg) : \E j \in i..Len(arg) :
        BraceBalanced(SubSeq(arg, i, j))

\* The offsets of the response where "<key>": <number-or-null> occurs.
Occurrences(key) ==
    {p \in 1..Len(arg) : PartialValueAt(arg, PartialValueStart(arg, key, p))}

CoreKeys == {K_net_irr, K_net_moic, K_net_dpi}

\* The value of the first occurrence of the key in the response.
FirstValue(key) == PartialValue(arg, PartialValueStart(arg, key, LeastOf(Occurrences(key))))

\* The call returned the partial metrics: exactly the core keys that occur,
\* each with the value of its first occurrence, and the error of a
\* truncated response.
ReturnedPartial ==
    /\ res.data.t = "dict"
    /\ \A k \in CoreKeys : DictHas(res.data, k) <=> Occurrences(k) # {}
    /\ \A k \in CoreKeys : Occurrences(k) # {} => DictGet(res.data, k) = FirstValue(k)
    /\ Len(res.data.o) = Cardinality({k \in CoreKeys : Occurrences(k) # {}})
    /\ res.err = ErrTruncated
    /\ res.err # ErrNoObject
    /\ ~IsNone(res.err)

\* The object found in the response of the call, as _extract_first_json_object finds it.
PartialCandidate == _extract_first_json_object(Strip(arg))

\* C26: when the response holds no complete brace-balanced object no
\* candidate is found, and extract_json_from_response then returns, if one
\* of net_irr, net_moic and net_dpi occurs as "<key>": <number-or-null>,
\* the mapping of exactly the keys found (first occurrence of each) with an
\* error that is not None, marks the result as truncated and differs from
\* the error of a full parse failure, and otherwise the empty mapping with
\* that other error; when a candidate was found and does not parse, the
\* partial metrics are not returned.
C26_PartialOnlyWithoutCandidate ==
    pc = "returned" =>
        /\ NoBalancedObject => ~PartialCandidate.found
        /\ ~PartialCandidate.found =>
              IF \E k \in CoreKeys : Occurrences(k) # {} THEN ReturnedPartial
              ELSE res = ParseFailed(ErrNoObject)
        /\ (PartialCandidate.found /\ RepairParses(PartialCandidate.s) = {}) =>
              /\ res.data = PyDict(<<>>)
              /\ ~IsNone(res.err)
              /\ res.err # ErrTruncated

\* A response without closing brace that holds net_irr twice and a null
\* net_moic has been answered with the first net_irr and the null.
C26_Witness ==
    /\ pc = "returned"
    /\ NoBalancedObject
    /\ Cardinality(Occurrences(K_net_irr)) = 2
    /\ res.err = ErrTruncated
    /\ DictGet(res.data, K_net_irr) = PyNum(15 * (Unit \div 10))
    /\ DictHas(res.data, K_net_moic)
    /\ IsNone(DictGet(res.data, K_net_moic))
    /\ ~DictHas(res.data, K_net_dpi)

(***************************************************************************)
(* SpecOtherLabel: normalize_prediction on a mapping with the other        *)
(* metric's label and value and one named field, and then                  *)
(* resolve_other_pred_from_canon of the result with a ground-truth label.  *)
(***************************************************************************)
L_Current_Yield == <<"C", "u", "r", "r", "e", "n", "t", " ", "Y", "i", "e", "l", "d">>
L_current_yield_pct == <<"c", "u", "r", "r", "e", "n", "t", "_", "y", "i", "e", "l", "d", " ", "(", "%", ")">>
L_Distribution_Rate == <<"D", "i", "s", "t", "r", "i", "b", "u", "t", "i", "o", "n", " ", "R", "a", "t", "e">>
L_Spread == <<"S", "p", "r", "e", "a", "d">>
L_ytd_whc_m == <<"Y", "T", "D", "-", "W", "H", "C", " ", "M">>
L_Yield_colon == <<" ", "Y", "i", "e", "l", "d", ":", " ">>
L_Net_IRR == <<"N", "e", "t", " ", "I", "R", "R">>
L_Spread_bps == <<"S", "p", "r", "e", "a", "d", " ", "(", "b", "p", "s", ")">>
G_current_yield == <<"c", "u", "r", "r", "e", "n", "t", "_", "y", "i", "e", "l", "d">>
G_Income_Distribution_Rate == <<"I", "n", "c", "o", "m", "e", " ", "D", "i", "s", "t", "r", "i", "b", "u", "t", "i", "o", "n", " ", "R", "a", "t", "e">>
G_yield == <<"Y", "i", "e", "l", "d">>
G_YTD_WHCM == <<"Y", "T", "D", " ", "W", "H", "C", "M">>

\* Labels of the model: entries of the table in other case, with
\* punctuation, with spaces or underscores, found by the first or by the
\* second lookup; "Net IRR" and "Spread (bps)" are no entries.
OtherLabels == { L_Current_Yield, L_current_yield_pct, L_Distribution_Rate, L_Spread, L_ytd_whc_m, L_Yield_colon, L_Net_IRR, L_Spread_bps }

\* Labels of the ground truth.
GtLabels == { G_current_yield, G_Income_Distribution_Rate, G_yield, G_YTD_WHCM }
N_7_84 == PyNum(784 * (Unit \div 100))

\* Values of the other metric: a percent, a fraction, zero, a percent text,
\* a sentinel text, none.
OtherLabelValues ==
    { N_7_84, PyNum(784 * (Unit \div 10000)), PyNum(0), PyStr(<<"7", ".", "8", "4", "%">>),
      PyStr(<<"n", "/", "a">>), PyNone }

\* The named field of the mapping and its values: missing, none, zero, a
\* number, a text that is no number.
NamedKeys == { K_current_yield, K_yield, K_income_distribution_rate }

NamedValues == { Missing, PyNone, PyNum(0), N_5, PyStr(<<"a", "b", "c">>) }

InitOtherLabel ==
    /\ pc = "call"
    /\ arg \in [ label : OtherLabels, value : OtherLabelValues, named_key : NamedKeys,
                 named_value : NamedValues, gt_label : GtLabels ]
    /\ res = <<>>
    /\ _FAILURE_LOG_COUNT = 0

\* The mapping of the call: the named field, then the label and the value.
OtherLabelMapping(a) ==
    PyDict(OptPair(a.named_key, a.named_value)
           \o << <<K_other_metric_label, PyStr(a.label)>>, <<K_other_metric_value, a.value>> >>)

\* normalize_prediction, then resolve_other_pred_from_canon on its result.
ResolveNormalized(canon, gt_label) ==
    [ canon |-> canon, resolved |-> resolve_other_pred_from_canon(canon, PyStr(gt_label)) ]

ApplyOtherLabel ==
    /\ pc = "call"
    /\ res' = ResolveNormalized(normalize_prediction(OtherLabelMapping(arg)), arg.gt_label)
    /\ pc' = "returned"
    /\ UNCHANGED <<arg, _FAILURE_LOG_COUNT>>

SpecOtherLabel == InitOtherLabel /\ [][ApplyOtherLabel]_vars

\* The label lower-cased, its punctuation blanked and its whitespace
\* collapsed, joined with spaces and with underscores.
JoinedWith(label, c) ==
    ReplaceChar(ReplaceChar(CollapseWs(BlankPunctuation(Lower(label))), " ", c), "_", c)

\* The canonical key of the table entry the label normalises to, <<>> when
\* it normalises to no entry.
EntryKey(label) ==
    IF OtherLabelGet(JoinedWith(label, "_")) # <<>> THEN OtherLabelGet(JoinedWith(label, "_"))
    ELSE OtherLabelGet(JoinedWith(label, " "))

\* The named field of the call populates the canonical key k.
NamedPopulates(k) ==
    /\ arg.named_key = k
    /\ arg.named_value # Missing
    /\ ~IsNone(normalize_value(arg.named_value))

\* C27: for a label that normalises to an entry of OTHER_LABEL_TO_CANONICAL
\* with canonical key k, normalize_prediction of the mapping with that
\* label and the value v gives k the value normalize_value(v), not rescaled,
\* unless a named field of the mapping populated k, whose value is then
\* kept; and resolve_other_pred_from_canon of the result with a
\* ground-truth label that normalises to k returns the value of k.
C27_OtherLabelPopulatesKey ==
    (pc = "returned" /\ EntryKey(arg.label) # <<>>) =>
        /\ DictGet(res.canon, EntryKey(arg.label)) =
              IF NamedPopulates(EntryKey(arg.label)) THEN normalize_value(arg.named_value)
              ELSE normalize_value(arg.value)
        /\ EntryKey(arg.gt_label) = EntryKey(arg.label) =>
              res.resolved = DictGet(res.canon, EntryKey(arg.label))

\* "Distribution Rate" with the fraction 0.0784 and an unpopulated named
\* field has set income_distribution_rate to 0.0784, and the ground-truth
\* label "Income Distribution Rate" resolved to it.
C27_Witness ==
    /\ pc = "returned"
    /\ arg.label = L_Distribution_Rate
    /\ arg.value = PyNum(784 * (Unit \div 10000))
    /\ arg.named_key = K_income_distribution_rate
    /\ arg.named_value = PyStr(<<"a", "b", "c">>)
    /\ arg.gt_label = G_Income_Distribution_Rate
    /\ res.resolved = arg.value

\* The sheet reads as alternating label/value rows: after a first row that
\* is skipped as a header when its first cell is no metric label, there is
\* at least one pair of rows, and each pair is a row whose first cell is a
\* metric label followed by a row whose first cell is no label and whose
\* first or second cell looks like a value.  start is the number of rows
\* skipped.
PairsFrom(rows, start) ==
    /\ Len(rows) - start >= 2
    /\ \A k \in 1..((Len(rows) - start) \div 2) :
          /\ _cell_looks_like_metric_label(FirstCell(rows[start + 2 * k - 1]))
          /\ ~_cell_looks_like_metric_label(FirstCell(rows[start + 2 * k]))
          /\ ValueInRow(rows[start + 2 * k])

AlternatingReadable(rows) ==
    PairsFrom(rows, IF _cell_looks_like_metric_label(FirstCell(rows[1])) THEN 0 ELSE 1)

\* C28: the layout is chosen in the order multi-tab, identifier column,
\* alternating, transposed: a workbook of several sheets is read as
\* multi-tab, a single sheet with an identifier column is read by that
\* column, and a single sheet without identifier column that reads as
\* alternating label/value rows is read as alternating, whether or not it
\* could be read as transposed.
C28_LayoutPriority ==
    pc # "call" =>
        /\ Len(arg) >= 2 => res = LoadedFrom(LoadTabs(arg, 1, NoDocuments))
        /\ (Len(arg) = 1 /\ arg[1].rows # <<>>) =>
              /\ IdColumn(HeaderOf(arg[1].rows[1])) >= 0 =>
                    res = LoadedFrom(StandardRows(arg[1].rows, 2, HeaderOf(arg[1].rows[1]),
                                                  IdColumn(HeaderOf(arg[1].rows[1])), NoDocuments))
              /\ (IdColumn(HeaderOf(arg[1].rows[1])) < 0 /\ AlternatingReadable(arg[1].rows)) =>
                    res = _parse_alternating_label_value_ground_truth(arg[1].rows)

\* The place among the candidates of the document the rows of the g-th group
\* of len(MODELS) rows are for; 0 when the group is for no candidate.
GroupDocument(rows, g) ==
    LeastOf({c \in 1..Len(res.candidates) :
               \A n \in 1..Len(EvalModels) :
                  rows[(g - 1) * Len(EvalModels) + n].test_case_id
                     = PathStem(res.candidates[c][1])})

\* rows is a sequence of whole groups, one per document and in MODELS order
\* inside, for documents before the place next and in processing order.
GroupedByDocument(rows, next) ==
    /\ Len(rows) % Len(EvalModels) = 0
    /\ \A g \in 1..(Len(rows) \div Len(EvalModels)) :
          /\ GroupDocument(rows, g) \in 1..(next - 1)
          /\ \A n \in 1..Len(EvalModels) :
                rows[(g - 1) * Len(EvalModels) + n].model_id = EvalModels[n]
          /\ \A h \in 1..(g - 1) : GroupDocument(rows, h) < GroupDocument(rows, g)

\* A step of the run keeps the rows it found, and adds either nothing or one
\* whole group for the document then at hand.
RowsOnlyAppended ==
    /\ Len(res'.all_rows) >= Len(res.all_rows)
    /\ SubSeq(res'.all_rows, 1, Len(res.all_rows)) = res.all_rows
    /\ res'.all_rows # res.all_rows =>
          /\ pc = "docs"
          /\ Len(res'.all_rows) = Len(res.all_rows) + Len(EvalModels)
          /\ GroupDocument(res'.all_rows, Len(res'.all_rows) \div Len(EvalModels)) = res.next

\* C29: in a batch run where any documents' evaluations raise and any model
\* invocations fail, the result sequence always consists of exactly
\* len(MODELS) rows for each document whose evaluation completed, grouped by
\* document in processing order and in MODELS order within a document; a
\* document whose evaluation raised adds no row, and no step removes or
\* changes a row appended earlier.
C29_RowsGroupedPerDocument ==
    /\ [](GroupedByDocument(res.all_rows, res.next))
    /\ [][RowsOnlyAppended]_vars
    /\ [][SkipDocument => res'.all_rows = res.all_rows]_vars

\* The run is over its two documents: the first raised and has no row, the
\* second has its three rows, the second model's invocation having failed.
C29_Witness ==
    /\ pc = "returned"
    /\ Len(res.candidates) = 2
    /\ res.next = 3
    /\ Len(res.all_rows) = Len(EvalModels)
    /\ res.all_rows[1].test_case_id = PathStem(res.candidates[2][1])
    /\ res.all_rows[2].parse_error = PyStr(<<"rate limit exceeded">>)
    /\ res.all_rows[1].parse_ok

\* The match flags of the row are 0 or 1.
FlagsAreBinary(row) ==
    {row.irr_match, row.moic_match, row.dpi_match, row.other_metric_match} \subseteq {0, 1}

\* Every metric of the row that is in scope has the match flag 1.
EveryInScopeMatched(row) ==
    /\ row.irr_in_scope => row.irr_match = 1
    /\ row.moic_in_scope => row.moic_match = 1
    /\ row.dpi_in_scope => row.dpi_match = 1
    /\ row.other_in_scope => row.other_metric_match = 1

\* The four ways a row says that no metric is in scope agree.
NotApplicableAgrees(row) ==
    /\ (row.overall_score_is_na = 1) <=> (row.no_metrics_in_scope = TRUE)
    /\ (row.no_metrics_in_scope = TRUE) <=> (row.grading_explanation.score_denom = 0)
    /\ (row.grading_explanation.score_denom = 0) <=> (row.overall_score = PyStr(<<>>))
    /\ row.overall_score_is_na \in {0, 1}

\* The score of a row with a metric in scope.
ScoreInUnitRange(row) ==
    /\ row.overall_score.t = "num"
    /\ 0 <= row.overall_score.v
    /\ row.overall_score.v <= Unit
    /\ (row.overall_score = POne) <=> EveryInScopeMatched(row)

RowScoreInvariants(row) ==
    /\ FlagsAreBinary(row)
    /\ 0 <= row.grading_explanation.score_num
    /\ row.grading_explanation.score_num <= row.grading_explanation.score_denom
    /\ row.grading_explanation.score_denom <= 4
    /\ NotApplicableAgrees(row)
    /\ row.grading_explanation.score_denom # 0 => ScoreInUnitRange(row)
    /\ TraceEntry(WithTestCase(row, <<>>)).score_denom = row.grading_explanation.score_denom

\* C30: in every row of evaluate_one the match flags are 0 or 1 and
\* 0 <= score_num <= score_denom <= 4; overall_score_is_na is 1 exactly when
\* no_metrics_in_scope holds, exactly when score_denom is 0, exactly when
\* overall_score is the empty marker; otherwise overall_score lies in [0, 1]
\* and is 1 exactly when every metric in scope matched; and the score_denom
\* write_trace_json computes from the in-scope flags is the scorer's.
C30_RowScoreInvariants ==
    \A n \in 1..Len(res) : RowScoreInvariants(res[n])

\* evaluate_one returned three rows for a document with irr and moic only:
\* the first model found both, the second one of the two, and the third
\* model's invocation failed.
C30_Witness ==
    /\ pc = "done"
    /\ Len(res) = 3
    /\ res[1].grading_explanation.score_denom = 2
    /\ res[1].overall_score = POne
    /\ res[2].grading_explanation.score_num = 1
    /\ res[2].overall_score = PyNum(5 * (Unit \div 10))
    /\ res[3].parse_error = PyStr(<<"rate limit exceeded">>)
    /\ res[3].overall_score = PyNum(0)

====
